---- MODULE Spec2Model ----
(***************************************************************************)
(* A model of stable-request: the circuit breaker, the response cache,     *)
(* the stable buffer and the attempt loop of stableRequest.                *)
(*                                                                         *)
(* Time is in milliseconds.  Percentages are compared by cross             *)
(* multiplication: (a / b) * 100 >= p is a * 100 >= p * b for b > 0.       *)
(***************************************************************************)
EXTENDS Integers, Sequences, FiniteSets, TLC

VARIABLES
    now,        \* Date.now()
    cb,         \* the CircuitBreaker instance (its private fields and config)
    cbLast,     \* the call on cb that has just returned: its name, result, time and
                \* the fields before it (no call once the clock has advanced)
    lastFailAt, \* history: when the most recent failure was recorded on cb (0: none)
    probe,      \* history: outcomes (n) and successes (ok) recorded by
                \* recordSuccess/recordFailure since cb last became HALF_OPEN
    cm,         \* the CacheManager instance (cache map, accessOrder, counters, config)
    cmLast,     \* the call on cm that has just returned: its name, key, result, time,
                \* the keys it removed, the least recently used key before it, the
                \* entry its key had before it, the misses and expirations it counted
                \* (no call once the clock has advanced)
    recency,    \* history: the keys stored in cm, least recently used first
                \* (a key is used by the set() that stores it and by a get() hit)

    buf,        \* the StableBuffer instance: state, queue (the transaction whose
                \* settling the queue promise awaits, 0 for the resolved promise),
                \* transactionSequence, totalTransactions, totalWaitMs
    txs,        \* the transactions handed to run(), in the order of the calls
    logs,       \* the entries handed to logTransaction, in the order of the calls
    co,         \* the persistence coordinators that share buf: their labels and
                \* operationCounters, the hooks of their persistence object, the
                \* operation of each transaction and what its body did, and as
                \* history the hook invocations and the setState() calls on buf
    own,        \* history of what the owner of buf did with its state: the calls of
                \* setState() and the writes through getState() so far (writes),
                \* that count when each body began and when it settled, and the
                \* transactions whose state object setState() replaced while
                \* their body was running (detached)

    ex,         \* the CircuitBreaker.execute(fn) call in progress or the last one
                \* made: where it is, how often it called fn and how it settled

    rp,         \* the replayStableBufferTransactions call in progress or the last
                \* one made: its options and logs, the ordered logs, its position
                \* in them, its counts, the state of its buffer, and as history
                \* the logs whose handler it invoked and the skips it reported

    hk,         \* the executeWithPersistence calls made with the buffer, one per
                \* transaction: the position of each in its body, and as history
                \* the steps that were taken, in the order in which they were

    dl,         \* the retry sleeps of one call: the retryStrategy, wait and
                \* maxAllowedWait options, and the sleep taken after each attempt

    fl,         \* the execute(fn) calls of concurrent callers: how many are
                \* awaiting their fn, and as history how many callers were
                \* admitted since the breaker became HALF_OPEN

    hp,         \* history: the attempts the calls have recorded on the shared
                \* breaker since it became HALF_OPEN

    ns,         \* the run() calls made by running bodies on their own buffer and
                \* awaited there: pairs <<outer, inner>> of transactions

    rq          \* the stableRequest call in progress or the last one made: its
                \* options and locals, its result, and as history the attempts it
                \* made (log), its transport calls, what ended it, and the run of
                \* calls before it that were answered by 500 responses only

breakerVars == <<cb, cbLast, lastFailAt, probe>>
cacheVars == <<cm, cmLast, recency>>
bufferVars == <<buf, txs, logs, co, own>>
requestVars == <<rq>>
sideVars == <<dl, fl, hp, ns>>
callVars == <<ex, rp, hk, sideVars>>
vars == <<now, breakerVars, cacheVars, bufferVars, requestVars, callVars>>

\* what the calls on one component leave alone
notBreaker == <<cacheVars, bufferVars, requestVars, callVars>>
notCache == <<breakerVars, bufferVars, requestVars, callVars>>
notBuffer == <<breakerVars, cacheVars, requestVars, callVars, co, own>>
notCoordinator == <<breakerVars, cacheVars, requestVars, callVars, own>>
notOwner == <<breakerVars, cacheVars, requestVars, callVars, co>>

\* ------------------------------------------------------------------ bounds

\* the clock advances in steps of TickMs up to MaxNow
TickMs == 500
MaxNow == 2001
\* outcomes a breaker's request-level (or attempt-level) triplet may count
MaxOutcomes == 3
\* state transitions a breaker may make
MaxTransitions == 3
\* outcomes a breaker may count at both levels together over a long window
MaxWindow == 10

\* set() calls and get() calls a cache manager may serve
MaxSets == 5
MaxGets == 2
\* set() calls a cache manager built with any ttl may serve
MaxTtlSets == 2
\* run() calls a buffer may serve
MaxTransactions == 3
\* load() and store() calls the coordinators of one buffer may serve, and
\* setState() calls made on that buffer
MaxOperations == 3
MaxSetStates == 1
\* the clock of the coordinators advances up to MaxCoordinatorNow
MaxCoordinatorNow == 1001
\* writes the owner of a buffer may make through getState()
MaxOwnerWrites == 1
\* logs handed to a replay, and transactions of a buffer whose recorded logs
\* are replayed
MaxLogs == 3
\* executeWithPersistence calls made with one buffer
MaxHookCalls == 2
\* execute(fn) calls that await their fn at the same time
MaxInFlight == 2
\* retry sleeps of one call
MaxSleeps == 5
MaxRecorded == 10
\* the attempts option of a stableRequest call is at most MaxAttempts
MaxAttempts == 2
\* stableRequest calls made with any options, and made with a breaker attached
MaxCalls == 2
MaxGuardedCalls == 5

Max(a, b) == IF a >= b THEN a ELSE b
Min(a, b) == IF a <= b THEN a ELSE b

\* ------------------------------------------------------- circuit breaker

CLOSED == "CLOSED"
OPEN == "OPEN"
HALF_OPEN == "HALF_OPEN"

\* constructor: the clamped configuration and the initial fields
CircuitBreakerConfig(config) ==
    [ failureThresholdPercentage |-> Max(0, Min(100, config.failureThresholdPercentage)),
      minimumRequests |-> Max(1, config.minimumRequests),
      recoveryTimeoutMs |-> Max(100, config.recoveryTimeoutMs),
      successThresholdPercentage |-> config.successThresholdPercentage,
      halfOpenMaxRequests |-> config.halfOpenMaxRequests,
      trackIndividualAttempts |-> config.trackIndividualAttempts ]

NewCircuitBreaker(config, t) ==
    [ state |-> CLOSED,
      config |-> CircuitBreakerConfig(config),
      totalRequests |-> 0, failedRequests |-> 0, successfulRequests |-> 0,
      totalAttempts |-> 0, failedAttempts |-> 0, successfulAttempts |-> 0,
      lastFailureTime |-> 0,
      halfOpenRequests |-> 0, halfOpenSuccesses |-> 0, halfOpenFailures |-> 0,
      stateTransitions |-> 0, lastStateChangeTime |-> t,
      openCount |-> 0, halfOpenCount |-> 0,
      totalOpenDuration |-> 0, lastOpenTime |-> 0,
      recoveryAttempts |-> 0, successfulRecoveries |-> 0, failedRecoveries |-> 0 ]

\* a reset that clears the totals only
resetCounters_totalsOnly(b) ==
    [b EXCEPT !.totalRequests = 0, !.totalAttempts = 0]

resetCounters(b) ==
    [b EXCEPT !.totalRequests = 0, !.failedRequests = 0, !.successfulRequests = 0,
              !.totalAttempts = 0, !.failedAttempts = 0, !.successfulAttempts = 0]

resetHalfOpenCounters(b) ==
    [b EXCEPT !.halfOpenRequests = 0, !.halfOpenSuccesses = 0, !.halfOpenFailures = 0]

transitionToClosed(b, t) ==
    LET b1 == IF b.state = HALF_OPEN
              THEN [b EXCEPT !.successfulRecoveries = @ + 1] ELSE b
        b2 == IF b1.state = OPEN /\ b1.lastOpenTime > 0
              THEN [b1 EXCEPT !.totalOpenDuration = @ + (t - b1.lastOpenTime)] ELSE b1
    IN resetHalfOpenCounters(resetCounters(
         [b2 EXCEPT !.state = CLOSED, !.lastStateChangeTime = t,
                    !.stateTransitions = @ + 1]))

transitionToOpen(b, t) ==
    LET b1 == IF b.state = HALF_OPEN
              THEN [b EXCEPT !.failedRecoveries = @ + 1] ELSE b
    IN resetHalfOpenCounters(
         [b1 EXCEPT !.state = OPEN, !.lastStateChangeTime = t, !.lastOpenTime = t,
                    !.stateTransitions = @ + 1, !.openCount = @ + 1])

\* a transition to HALF_OPEN that is not counted
transitionToHalfOpen_uncounted(b, t) ==
    LET b1 == IF b.state = OPEN /\ b.lastOpenTime > 0
              THEN [b EXCEPT !.totalOpenDuration = @ + (t - b.lastOpenTime)] ELSE b
    IN resetHalfOpenCounters(
         [b1 EXCEPT !.state = HALF_OPEN, !.lastStateChangeTime = t,
                    !.halfOpenCount = @ + 1, !.recoveryAttempts = @ + 1])

transitionToHalfOpen(b, t) ==
    LET b1 == IF b.state = OPEN /\ b.lastOpenTime > 0
              THEN [b EXCEPT !.totalOpenDuration = @ + (t - b.lastOpenTime)] ELSE b
    IN resetHalfOpenCounters(
         [b1 EXCEPT !.state = HALF_OPEN, !.lastStateChangeTime = t,
                    !.stateTransitions = @ + 1, !.halfOpenCount = @ + 1,
                    !.recoveryAttempts = @ + 1])

checkThreshold(b, t) ==
    IF b.totalRequests < b.config.minimumRequests THEN b
    ELSE IF b.failedRequests * 100 >= b.config.failureThresholdPercentage * b.totalRequests
         THEN transitionToOpen(b, t)
         ELSE b

checkAttemptThreshold(b, t) ==
    IF b.totalAttempts < b.config.minimumRequests THEN b
    ELSE IF b.failedAttempts * 100 >= b.config.failureThresholdPercentage * b.totalAttempts
         THEN transitionToOpen(b, t)
         ELSE b

\* mutant: the probe is evaluated one outcome late
checkHalfOpenTransition_late(b, t) ==
    IF b.halfOpenRequests > b.config.halfOpenMaxRequests
    THEN IF b.halfOpenSuccesses * 100 >= b.config.successThresholdPercentage * b.halfOpenRequests
         THEN transitionToClosed(b, t)
         ELSE transitionToOpen(b, t)
    ELSE b

checkHalfOpenTransition(b, t) ==
    IF b.halfOpenRequests >= b.config.halfOpenMaxRequests
    THEN IF b.halfOpenSuccesses * 100 >= b.config.successThresholdPercentage * b.halfOpenRequests
         THEN transitionToClosed(b, t)
         ELSE transitionToOpen(b, t)
    ELSE b

shouldResetCounters(b) ==
    IF b.config.trackIndividualAttempts
    THEN b.totalAttempts >= b.config.minimumRequests * 10
    ELSE b.totalRequests >= b.config.minimumRequests * 10

\* canExecute(): the value returned, and the breaker afterwards
canExecuteResult(b, t) ==
    IF b.state = CLOSED THEN TRUE
    ELSE IF b.state = OPEN THEN t - b.lastFailureTime >= b.config.recoveryTimeoutMs
    ELSE IF b.state = HALF_OPEN THEN b.halfOpenRequests < b.config.halfOpenMaxRequests
    ELSE FALSE

canExecute(b, t) ==
    IF b.state = OPEN /\ t - b.lastFailureTime >= b.config.recoveryTimeoutMs
    THEN transitionToHalfOpen(b, t)
    ELSE b

recordSuccess(b, t) ==
    LET b1 == [b EXCEPT !.totalRequests = @ + 1, !.successfulRequests = @ + 1]
    IN IF b1.state = HALF_OPEN
       THEN checkHalfOpenTransition(
              [b1 EXCEPT !.halfOpenSuccesses = @ + 1, !.halfOpenRequests = @ + 1], t)
       ELSE IF b1.state = CLOSED
            THEN IF shouldResetCounters(b1) THEN resetCounters(b1) ELSE b1
            ELSE b1

\* mutant: a failure recorded while OPEN does not move lastFailureTime
recordFailure_ignoredWhileOpen(b, t) ==
    LET b1 == [b EXCEPT !.totalRequests = @ + 1, !.failedRequests = @ + 1,
                        !.lastFailureTime = IF b.state = OPEN THEN @ ELSE t]
    IN IF b1.state = HALF_OPEN
       THEN checkHalfOpenTransition(
              [b1 EXCEPT !.halfOpenFailures = @ + 1, !.halfOpenRequests = @ + 1], t)
       ELSE IF b1.state = CLOSED THEN checkThreshold(b1, t)
            ELSE b1

recordFailure(b, t) ==
    LET b1 == [b EXCEPT !.totalRequests = @ + 1, !.failedRequests = @ + 1,
                        !.lastFailureTime = t]
    IN IF b1.state = HALF_OPEN
       THEN checkHalfOpenTransition(
              [b1 EXCEPT !.halfOpenFailures = @ + 1, !.halfOpenRequests = @ + 1], t)
       ELSE IF b1.state = CLOSED THEN checkThreshold(b1, t)
            ELSE b1

recordAttemptSuccess(b, t) ==
    LET b1 == [b EXCEPT !.totalAttempts = @ + 1, !.successfulAttempts = @ + 1]
    IN IF b1.state = CLOSED
       THEN LET b2 == IF b1.config.trackIndividualAttempts
                      THEN checkAttemptThreshold(b1, t) ELSE b1
            IN IF shouldResetCounters(b2) THEN resetCounters(b2) ELSE b2
       ELSE b1

recordAttemptFailure(b, t) ==
    LET b1 == [b EXCEPT !.totalAttempts = @ + 1, !.failedAttempts = @ + 1,
                        !.lastFailureTime = t]
    IN IF b1.state = CLOSED /\ b1.config.trackIndividualAttempts
       THEN checkAttemptThreshold(b1, t)
       ELSE b1

reset(b) ==
    [resetHalfOpenCounters(resetCounters(b)) EXCEPT !.state = CLOSED, !.lastFailureTime = 0]

\* execute(fn): no call of it yet
NoExecute ==
    [pc |-> "idle", fnCalls |-> 0, outcome |-> "none", value |-> "undefined"]

\* `stable-request: Circuit breaker is ${this.state}. Request blocked.`
blockedError(state) == "stable-request: Circuit breaker is " \o state \o ". Request blocked."

\* execute(fn) up to the await of fn(): the breaker afterwards, what
\* canExecute() returned and the call of execute
executeBegin(b, t) ==
    LET admitted == canExecuteResult(b, t)
        b1 == canExecute(b, t)
    IN [ cb |-> b1, canExecute |-> admitted,
         ex |-> IF ~admitted
                THEN [pc |-> "done", fnCalls |-> 0, outcome |-> "rejected",
                      value |-> blockedError(b1.state)]
                ELSE [pc |-> "running", fnCalls |-> 1, outcome |-> "pending",
                      value |-> "undefined"] ]

\* an execute that counts every outcome of fn as a success
executeEnd_countsSuccess(b, e, fn, t) ==
    [ cb |-> recordSuccess(b, t),
      ex |-> [e EXCEPT !.pc = "done",
                       !.outcome = IF fn = "resolves" THEN "resolved" ELSE "rejected",
                       !.value = IF fn = "resolves" THEN "result" ELSE "fn error"] ]

\* execute(fn) from the settling of fn() on: fn resolves with "result" or
\* throws "fn error"
executeEnd(b, e, fn, t) ==
    IF fn = "resolves"
    THEN [ cb |-> recordSuccess(b, t),
           ex |-> [e EXCEPT !.pc = "done", !.outcome = "resolved", !.value = "result"] ]
    ELSE [ cb |-> recordFailure(b, t),
           ex |-> [e EXCEPT !.pc = "done", !.outcome = "rejected", !.value = "fn error"] ]

NoFlight == [running |-> 0, admitted |-> 0]

\* ---------------------------------------------------------- cache manager

\* String.prototype.toUpperCase on the method names in use
toUpperCase(method) ==
    CASE method = "get" -> "GET"
      [] method = "post" -> "POST"
      [] OTHER -> method

DefaultCacheableStatusCodes == {200, 203, 204, 206, 300, 301, 404, 405, 410, 414, 501}
DefaultExcludeMethods == {"POST", "PUT", "PATCH", "DELETE"}

\* constructor
NewCacheManager(config) ==
    [ cache |-> <<>>,          \* Map<string, CachedResponse>: a function on the stored keys
      accessOrder |-> <<>>,
      hits |-> 0, misses |-> 0, sets |-> 0, evictions |-> 0, expirations |-> 0,
      config |-> [ enabled |-> config.enabled,
                   ttl |-> config.ttl,
                   respectCacheControl |-> TRUE,
                   cacheableStatusCodes |-> DefaultCacheableStatusCodes,
                   maxSize |-> config.maxSize,
                   excludeMethods |-> DefaultExcludeMethods ] ]

\* the key is a digest of method:url:params:headers; params and the relevant
\* headers are the same in every request of the model
generateKey(reqConfig) == <<toUpperCase(reqConfig.method), reqConfig.url>>

shouldCacheMethod(c, method) == toUpperCase(method) \notin c.config.excludeMethods

shouldCacheStatus(c, status) == status \in c.config.cacheableStatusCodes

\* response headers: cacheControl is "" (absent), "no-cache", "no-store" or
\* "max-age"; maxAge is the N of max-age=N; expires is 0 (absent) or a time in ms
NoTtl == [null |-> TRUE, ttl |-> 0]
Ttl(n) == [null |-> FALSE, ttl |-> n]

parseCacheControl(c, headers, t) ==
    IF ~c.config.respectCacheControl THEN NoTtl
    ELSE IF headers.cacheControl \in {"no-cache", "no-store"} THEN Ttl(0)
    ELSE IF headers.cacheControl = "max-age" THEN Ttl(headers.maxAge * 1000)
    ELSE IF headers.expires # 0
         THEN Ttl(IF headers.expires - t > 0 THEN headers.expires - t ELSE 0)
         ELSE NoTtl

mapDelete(map, key) == [k \in DOMAIN map \ {key} |-> map[k]]
mapSet(map, key, value) ==
    [k \in DOMAIN map \cup {key} |-> IF k = key THEN value ELSE map[k]]
filterOut(order, key) == SelectSeq(order, LAMBDA k : k # key)

\* get(): the CachedResponse returned, or NoEntry for null
NoEntry == [data |-> "null", status |-> 0, timestamp |-> 0, expiresAt |-> 0]

cacheGetResult(c, reqConfig, t) ==
    LET key == generateKey(reqConfig)
    IN IF ~c.config.enabled \/ ~shouldCacheMethod(c, reqConfig.method) THEN NoEntry
       ELSE IF key \notin DOMAIN c.cache THEN NoEntry
       ELSE IF t > c.cache[key].expiresAt THEN NoEntry
       ELSE c.cache[key]

\* get() that leaves an expired entry where it is
cacheGet_keepsExpired(c, reqConfig, t) ==
    LET key == generateKey(reqConfig)
    IN IF ~c.config.enabled \/ ~shouldCacheMethod(c, reqConfig.method) THEN c
       ELSE IF key \notin DOMAIN c.cache THEN [c EXCEPT !.misses = @ + 1]
       ELSE IF t > c.cache[key].expiresAt THEN [c EXCEPT !.misses = @ + 1]
       ELSE [c EXCEPT !.accessOrder = Append(filterOut(@, key), key),
                      !.hits = @ + 1]

\* get(): the cache manager afterwards
cacheGet(c, reqConfig, t) ==
    LET key == generateKey(reqConfig)
    IN IF ~c.config.enabled \/ ~shouldCacheMethod(c, reqConfig.method) THEN c
       ELSE IF key \notin DOMAIN c.cache THEN [c EXCEPT !.misses = @ + 1]
       ELSE IF t > c.cache[key].expiresAt
            THEN [c EXCEPT !.cache = mapDelete(@, key),
                           !.accessOrder = filterOut(@, key),
                           !.expirations = @ + 1, !.misses = @ + 1]
            ELSE [c EXCEPT !.accessOrder = Append(filterOut(@, key), key),
                           !.hits = @ + 1]

\* the eviction step of set(): when the map is full, shift accessOrder and
\* delete the shifted key from the map
evictOldest(c) ==
    IF Cardinality(DOMAIN c.cache) >= c.config.maxSize
    THEN IF c.accessOrder # <<>>
         THEN [c EXCEPT !.accessOrder = Tail(@),
                        !.cache = mapDelete(@, Head(c.accessOrder)),
                        !.evictions = @ + 1]
         ELSE c
    ELSE c

cacheSet(c, reqConfig, data, status, headers, t) ==
    IF ~c.config.enabled THEN c
    ELSE IF ~shouldCacheMethod(c, reqConfig.method) THEN c
    ELSE IF ~shouldCacheStatus(c, status) THEN c
    ELSE LET key == generateKey(reqConfig)
             cacheControlTtl == parseCacheControl(c, headers, t)
         IN IF ~cacheControlTtl.null /\ cacheControlTtl.ttl = 0 THEN c
            ELSE LET ttl == IF cacheControlTtl.null THEN c.config.ttl
                            ELSE cacheControlTtl.ttl
                     cached == [data |-> data, status |-> status,
                                timestamp |-> t, expiresAt |-> t + ttl]
                     c1 == evictOldest(c)
                 IN [c1 EXCEPT !.cache = mapSet(@, key, cached),
                               !.accessOrder = Append(@, key),
                               !.sets = @ + 1]

cacheClear(c) == [c EXCEPT !.cache = <<>>, !.accessOrder = <<>>]

cacheDelete(c, reqConfig) ==
    LET key == generateKey(reqConfig)
    IN [c EXCEPT !.accessOrder = filterOut(@, key), !.cache = mapDelete(@, key)]

cachePrune(c, t) ==
    LET expired == {k \in DOMAIN c.cache : t > c.cache[k].expiresAt}
    IN [c EXCEPT !.cache = [k \in DOMAIN c.cache \ expired |-> c.cache[k]],
                 !.accessOrder = SelectSeq(@, LAMBDA k : k \notin expired)]

\* ------------------------------------------------- StableBuffer (stable-buffer.ts)

\* the state is the sequence of the writes made to it; stateBefore and stateAfter
\* are copies (cloneState): a later write to the state leaves them as they were
NewStableBuffer(options) ==
    [ state |-> options.initialState,
      queue |-> 0,
      totalTransactions |-> 0,
      totalWaitMs |-> 0,
      transactionSequence |-> 0,
      transactionTimeoutMs |-> options.transactionTimeoutMs,
      logTransaction |-> options.logTransaction ]

\* `stable-buffer-${Date.now()}-${this.transactionSequence}`
createTransactionId(b, t) == <<"stable-buffer", t, b.transactionSequence + 1>>

\* the execution promise of a transaction has settled
settled(tx) == tx.status \in {"resolved", "rejected"}

\* this.queue as run() found it is resolved: it is the resolved promise of the
\* constructor, or executionPromise.then(() => undefined, () => undefined) of the
\* transaction `after`, which resolves however that execution promise settles
queueSettled_unlessRejected(ts, after) ==
    IF after = 0 THEN TRUE ELSE ts[after].status = "resolved"

queueSettled(ts, after) == IF after = 0 THEN TRUE ELSE settled(ts[after])

\* run(fn): the transaction it makes; its task is chained on this.queue
newTransaction(b, fn, t) ==
    [ transactionId |-> createTransactionId(b, t),
      fn |-> fn,
      after |-> b.queue,
      queuedAt |-> t,
      startAt |-> 0,
      finishedAt |-> 0,
      status |-> "queued",
      caller |-> "pending",
      stateBefore |-> <<>>,
      stateAfter |-> <<>> ]

\* a run() that leaves this.queue as it found it
bufferRun_unchained(b) == [b EXCEPT !.transactionSequence = @ + 1]

\* run(fn): the buffer after the call; this.queue now awaits the new transaction
bufferRun(b) ==
    [b EXCEPT !.transactionSequence = @ + 1, !.queue = b.transactionSequence + 1]

\* task(), up to the call of fn
taskStartBuffer(b, tx, t) ==
    [b EXCEPT !.totalWaitMs = @ + Max(0, t - tx.queuedAt), !.totalTransactions = @ + 1]

taskStart(b, tx, t) ==
    [tx EXCEPT !.startAt = t, !.stateBefore = b.state, !.status = "running"]

\* fn(this.state): the body writes its mark to the state, then returns or throws
fnWrites(b, tx) == [b EXCEPT !.state = Append(@, tx.transactionId[3])]

\* task(), from the settling of fn: the execution promise settles as fn did, and
\* so does the promise run() returned unless its timeout has already rejected it
\* a task whose execution promise rejects when the logger throws
taskOutcome_loggerBreaks(b, tx) ==
    IF b.logTransaction = "throws" THEN "rejected"
    ELSE IF tx.fn = "returns" THEN "resolved" ELSE "rejected"

\* how the execution promise settles: as fn did; what logTransaction throws in
\* the finally block is caught there
taskOutcome(b, tx) == IF tx.fn = "returns" THEN "resolved" ELSE "rejected"

taskFinish(b, tx, t) ==
    LET outcome == taskOutcome(b, tx)
    IN [tx EXCEPT !.finishedAt = t,
                  !.stateAfter = fnWrites(b, tx).state,
                  !.status = outcome,
                  !.caller = IF @ = "pending" THEN outcome ELSE @]

\* the entry handed to logTransaction in the finally block
logEntry(tx) ==
    [ transactionId |-> tx.transactionId,
      queuedAt |-> tx.queuedAt,
      startedAt |-> tx.startAt,
      finishedAt |-> tx.finishedAt,
      durationMs |-> Max(0, tx.finishedAt - tx.startAt),
      queueWaitMs |-> Max(0, tx.startAt - tx.queuedAt),
      success |-> tx.status = "resolved",
      stateBefore |-> tx.stateBefore,
      stateAfter |-> tx.stateAfter ]

\* a timer that is armed when the body starts
timeoutDue_fromStart(b, tx, t) ==
    /\ b.transactionTimeoutMs > 0
    /\ tx.caller = "pending"
    /\ tx.status # "queued"
    /\ t >= tx.startAt + b.transactionTimeoutMs

\* wrapWithTimeout: the timer of a transaction is armed and due
timeoutDue(b, tx, t) ==
    /\ b.transactionTimeoutMs > 0
    /\ tx.caller = "pending"
    /\ t >= tx.queuedAt + b.transactionTimeoutMs

\* `StableBuffer transaction timed out after ${timeoutMs}ms`
timeoutError(b) ==
    "StableBuffer transaction timed out after " \o ToString(b.transactionTimeoutMs) \o "ms"

\* a timer that also ends the body it was waiting for
timeoutFires_aborting(b, tx) ==
    [tx EXCEPT !.caller = timeoutError(b), !.status = "rejected"]

\* the timer fires: the promise run() returned rejects; the execution promise
\* it raced against is left as it is
timeoutFires(b, tx) == [tx EXCEPT !.caller = timeoutError(b)]

\* ------------------------- InfrastructurePersistenceCoordinator (part_005)

\* setState(nextState)
setState(b, nextState) == [b EXCEPT !.state = nextState]

\* a task that logs as stateAfter the state it found before the body
taskSettle_withoutBody(b, tx, outcome, t) ==
    [tx EXCEPT !.finishedAt = t,
               !.stateAfter = tx.stateBefore,
               !.status = outcome,
               !.caller = IF @ = "pending" THEN outcome ELSE @]

\* task(), from the settling of a body that has made its writes already
taskSettle(b, tx, outcome, t) ==
    [tx EXCEPT !.finishedAt = t,
               !.stateAfter = b.state,
               !.status = outcome,
               !.caller = IF @ = "pending" THEN outcome ELSE @]

\* a write made through the reference getState() returned
OwnerMark == 0
getStateWrite(b) == [b EXCEPT !.state = Append(@, OwnerMark)]

\* fn(this.state) of a body that began with the state object `detached` tells
\* apart: when setState() has replaced this.state since, the body writes to the
\* object it was given and this.state does not change
fnWritesTo(b, tx, detached) == IF detached THEN b ELSE fnWrites(b, tx)

NoOwner == [writes |-> 0, began |-> <<>>, ended |-> <<>>, detached |-> {}]

\* the coordinators of two components built with one persistence object: its
\* buffer is a StableBuffer, so ensureStableBuffer hands the same buffer to both
NewCoordinators(labels, hooks) ==
    [ label |-> labels,
      persistence |-> hooks,          \* "transaction", or "loadStore"
      operationCounter |-> <<0, 0>>,
      operations |-> <<>>,            \* the operation of each transaction
      results |-> <<>>,               \* "pending", "skipped" or "hook"
      found |-> <<>>,                 \* history: the id was recorded when the body began
      hooks |-> <<>>,                 \* history: the hook invocations
      setStates |-> 0 ]               \* history: setState() calls on the buffer

\* `${this.label}-${type}-${Date.now()}-${this.operationCounter}`
nextOperationId(c, k, type, t) == <<c.label[k], type, t, c.operationCounter[k] + 1>>

\* load() and store(state) up to the call of buffer.run
newOperation(c, k, type, t) ==
    [operationId |-> nextOperationId(c, k, type, t), type |-> type, timestamp |-> t]

\* state[PERSISTENCE_META_KEY].processedOperations: the ids with a timestamp
\* recorded; the state of the buffer is the sequence of the ids written to it
processedOperations(state) == {state[n] : n \in 1..Len(state)}

\* the hook the body of runTransaction calls for an operation
hookFor(c, operation) ==
    IF c.persistence = "transaction" THEN "transaction" ELSE operation.type

\* a body of runTransaction that never finds its id recorded
runTransactionSkips_never(state, operation) == FALSE

\* the body of runTransaction: whether it returns {skipped: true}
runTransactionSkips(state, operation) ==
    operation.operationId \in processedOperations(state)

\* the body of runTransaction: the state it leaves
runTransactionState(state, operation) ==
    IF runTransactionSkips(state, operation) THEN state
    ELSE Append(state, operation.operationId)

\* ------------------------------------------------ reqFn (utilities/req-fn.ts)

Undefined == "undefined"

RetryableCodes == {"ECONNRESET", "ETIMEDOUT", "ECONNREFUSED", "ENOTFOUND", "EAI_AGAIN"}

\* an AxiosError: status is the status of its response (0: it has no response),
\* code its error code, message its text
isRetryableError(error) ==
    LET statusCode == IF error.status = 0 THEN 200 ELSE error.status
    IN \/ statusCode >= 500
       \/ statusCode \in {408, 429, 409}
       \/ error.code \in RetryableCodes

generateAxiosRequestConfig(reqData) ==
    [ method |-> IF reqData.method = Undefined THEN "GET" ELSE reqData.method,
      url |-> IF reqData.path = Undefined THEN "" ELSE reqData.path ]

NoHeaders == [cacheControl |-> "", maxAge |-> 0, expires |-> 0]

\* reqFn past the cache lookup: axios.request answers `transport`, which is a
\* response (kind "response"), a cancellation ("cancel") or another AxiosError
\* ("error"); `caching` tells whether reqFn holds a cache manager.  Trial mode
\* is off.  The value is the ReqFnResponse, the cache manager afterwards and
\* whether the transport was called.
reqFnTransport(c, reqData, resReq, caching, transport, t) ==
    IF transport.kind = "response"
    THEN [ res |-> [ ok |-> TRUE, isRetryable |-> TRUE,
                     data |-> IF resReq THEN transport.data ELSE Undefined,
                     error |-> Undefined,
                     statusCode |-> IF transport.status = 0 THEN 200
                                    ELSE transport.status,
                     fromCache |-> FALSE ],
           cm |-> IF caching
                  THEN cacheSet(c, reqData, transport.data, transport.status,
                                NoHeaders, t)
                  ELSE c,
           called |-> TRUE ]
    ELSE IF transport.kind = "cancel"
    THEN [ res |-> [ ok |-> FALSE, isRetryable |-> FALSE, data |-> Undefined,
                     error |-> "stable-request: Request was cancelled.",
                     statusCode |-> transport.status, fromCache |-> FALSE ],
           cm |-> c, called |-> TRUE ]
    ELSE [ res |-> [ ok |-> FALSE, isRetryable |-> isRetryableError(transport),
                     data |-> Undefined,
                     error |-> "stable-request: " \o transport.message,
                     statusCode |-> transport.status, fromCache |-> FALSE ],
           cm |-> c, called |-> TRUE ]

\* a reqFn that goes to the transport without the lookup
reqFn_withoutLookup(c, reqData, resReq, cacheConfig, transport, t) ==
    reqFnTransport(c, reqData, resReq, cacheConfig.enabled, transport, t)

\* reqFn: c is the global cache manager, which getGlobalCacheManager hands out
\* when cacheConfig.enabled
reqFn(c, reqData, resReq, cacheConfig, transport, t) ==
    IF cacheConfig.enabled
    THEN LET cached == cacheGetResult(c, reqData, t)
             c1 == cacheGet(c, reqData, t)
         IN IF cached # NoEntry
            THEN [ res |-> [ ok |-> TRUE, isRetryable |-> TRUE,
                             data |-> IF resReq THEN cached.data ELSE Undefined,
                             error |-> Undefined,
                             statusCode |-> cached.status,
                             fromCache |-> TRUE ],
                   cm |-> c1, called |-> FALSE ]
            ELSE reqFnTransport(c1, reqData, resReq, TRUE, transport, t)
    ELSE reqFnTransport(c, reqData, resReq, FALSE, transport, t)

\* --------------------------------------- stableRequest (core/stable-request.ts)

\* getNewDelayTime without jitter, and the sleep of delay()
getNewDelayTime(retryStrategy, wait, currentAttempt) ==
    CASE retryStrategy = "FIXED" -> wait
      [] retryStrategy = "LINEAR" -> currentAttempt * wait
      [] retryStrategy = "EXPONENTIAL" ->
            wait * 2 ^ (IF currentAttempt > 0 THEN currentAttempt - 1 ELSE currentAttempt)
      [] OTHER -> wait

\* a sleep of the whole computed delay
delay_uncapped(wait, maxAllowedWait) == wait

delay(wait, maxAllowedWait) == Min(wait, maxAllowedWait)

NoSleeps ==
    [retryStrategy |-> "FIXED", wait |-> 1000, maxAllowedWait |-> 60000, sleeps |-> <<>>]

\* the analyzers in use: the default one accepts every response, the validator
\* accepts the data "valid" and rejects the rest by returning false or by throwing
accepts(responseAnalyzer, data) == responseAnalyzer = "default" \/ data = "valid"

NoBreaker == [state |-> "none"]

\* a result: `has` is the set of the properties the object has
NoResult ==
    [ kind |-> "none", has |-> {}, success |-> FALSE, data |-> Undefined,
      error |-> Undefined, errorLogs |-> <<>>, successfulAttempts |-> <<>>,
      metrics |-> [totalAttempts |-> 0, successfulAttempts |-> 0,
                   failedAttempts |-> 0, totalExecutionTime |-> 0] ]

NoCache == [enabled |-> FALSE, ttl |-> 300000, maxSize |-> 100]

\* the options of a call with their defaults (lines 100-135); trial mode is off
\* and the hooks other than the two analyzers are the default ones
DefaultOptions ==
    [ reqData |-> [method |-> Undefined, path |-> Undefined],
      responseAnalyzer |-> "default",
      resReq |-> FALSE,
      attempts |-> 1,
      performAllAttempts |-> FALSE,
      wait |-> 1000,
      maxAllowedWait |-> 60000,
      retryStrategy |-> "FIXED",
      logAllErrors |-> FALSE,
      logAllSuccessfulAttempts |-> FALSE,
      throwOnFailedErrorAnalysis |-> FALSE,
      cache |-> NoCache,
      circuitBreaker |-> [kind |-> "none", config |-> [trackIndividualAttempts |-> FALSE]],
      preExecution |-> [preExecutionHook |-> "returns",
                        continueOnPreExecutionHookFailure |-> FALSE],
      trialMode |-> [enabled |-> FALSE, reqFailureProbability |-> 0] ]

\* the state of a call; a world w is the call (rq), the shared breaker instance
\* (cb) and the global cache manager (cm)
NoRequest ==
    [ pc |-> "idle", calls |-> 0,
      streak |-> 0, streakAt |-> 0, streakBefore |-> 0, streakAtBefore |-> 0,
      options |-> DefaultOptions,
      attempts |-> 0, maxAttempts |-> 0, totalAttemptsMade |-> 0,
      successfulAttemptsCount |-> 0, requestStartTime |-> 0,
      errorLogs |-> <<>>, successfulAttemptsList |-> <<>>,
      circuitBreakerInstance |-> NoBreaker,
      res |-> [ok |-> FALSE, isRetryable |-> TRUE, data |-> Undefined,
               error |-> Undefined, statusCode |-> 0, fromCache |-> FALSE],
      lastSuccessfulAttemptData |-> Undefined, hadAtLeastOneSuccess |-> FALSE,
      resumeAt |-> 0, caught |-> Undefined, result |-> NoResult,
      log |-> <<>>, transportCalls |-> 0, endedBy |-> "none",
      reported |-> Undefined, handled |-> FALSE,
      analyzed |-> <<>>,       \* history: what finalErrorAnalyzer did, call by call
      cachedBefore |-> NoEntry ]  \* history: the live cache entry the call found

\* the call throws e
thrown(r, e) == [NoResult EXCEPT !.kind = "threw", !.error = e]

\* validateTrialModeProbabilities: the message of the error it throws, if any
\* (probabilities are whole numbers here)
validateTrialModeProbabilities(trialMode) ==
    IF trialMode.enabled
       /\ (trialMode.reqFailureProbability < 0 \/ trialMode.reqFailureProbability > 1)
    THEN "stable-request: Unable to proceed as request failure probability must be between 0 and 1."
    ELSE Undefined

\* the result returned when the pre-execution hook has failed (lines 87-97)
preExecutionFailure(message) ==
    [NoResult EXCEPT !.kind = "returned", !.has = {"success", "error", "metrics"},
                     !.error = message]

\* a call that goes on to its loop whatever its pre-execution hook did
newCall_hookFailureIgnored(prev, options, t) ==
    LET r == [ NoRequest EXCEPT
                 !.pc = "loop",
                 !.calls = prev.calls + 1,
                 !.streak = prev.streak, !.streakAt = prev.streakAt,
                 !.streakBefore = prev.streak, !.streakAtBefore = prev.streakAt,
                 !.options = options,
                 !.attempts = options.attempts, !.maxAttempts = options.attempts,
                 !.requestStartTime = t,
                 !.circuitBreakerInstance =
                     IF options.circuitBreaker.kind = "config"
                     THEN NewCircuitBreaker(options.circuitBreaker.config, t)
                     ELSE NoBreaker,
                 !.resumeAt = t ]
        invalid == validateTrialModeProbabilities(options.trialMode)
    IN IF invalid # Undefined
       THEN [r EXCEPT !.pc = "caught", !.caught = invalid, !.endedBy = "trialMode"]
       ELSE r

\* the call from its entry to the do-while loop (lines 38-195): the
\* pre-execution hook returns nothing or throws an error without a message,
\* then the locals are set up and the trial mode is validated
newCall(prev, options, t) ==
    LET r == [ NoRequest EXCEPT
                 !.pc = "loop",
                 !.calls = prev.calls + 1,
                 !.streak = prev.streak, !.streakAt = prev.streakAt,
                 !.streakBefore = prev.streak, !.streakAtBefore = prev.streakAt,
                 !.options = options,
                 !.attempts = options.attempts, !.maxAttempts = options.attempts,
                 !.requestStartTime = t,
                 !.circuitBreakerInstance =
                     IF options.circuitBreaker.kind = "config"
                     THEN NewCircuitBreaker(options.circuitBreaker.config, t)
                     ELSE NoBreaker,
                 !.resumeAt = t ]
        hookFailed == options.preExecution.preExecutionHook = "throws"
        invalid == validateTrialModeProbabilities(options.trialMode)
    IN IF hookFailed /\ ~options.preExecution.continueOnPreExecutionHookFailure
       THEN [ NoRequest EXCEPT
                !.pc = "done", !.calls = prev.calls + 1,
                !.streakBefore = prev.streak, !.streakAtBefore = prev.streakAt,
                !.options = options, !.endedBy = "preExecution",
                !.result = IF options.throwOnFailedErrorAnalysis
                           THEN thrown(NoRequest, "")
                           ELSE preExecutionFailure("Pre-execution hook failed") ]
       ELSE IF invalid # Undefined
       THEN [r EXCEPT !.pc = "caught", !.caught = invalid, !.endedBy = "trialMode"]
       ELSE r

hasBreaker(w) == w.rq.options.circuitBreaker.kind # "none"

\* circuitBreakerInstance: the instance handed in, or the one the call made
breakerOf(w) ==
    IF w.rq.options.circuitBreaker.kind = "instance" THEN w.cb
    ELSE w.rq.circuitBreakerInstance

withBreaker(w, b) ==
    IF w.rq.options.circuitBreaker.kind = "instance" THEN [w EXCEPT !.cb = b]
    ELSE [w EXCEPT !.rq.circuitBreakerInstance = b]

tracksAttempts(w) == hasBreaker(w) /\ breakerOf(w).config.trackIndividualAttempts

\* a buildResult that reports the data it is given on failure too
buildResult_alwaysData(r, success, data, error, t) ==
    [ kind |-> "returned",
      has |-> {"success", "metrics", "data"},
      success |-> success, data |-> data, error |-> error,
      errorLogs |-> r.errorLogs, successfulAttempts |-> r.successfulAttemptsList,
      metrics |-> [ totalAttempts |-> r.totalAttemptsMade,
                    successfulAttempts |-> r.successfulAttemptsCount,
                    failedAttempts |-> r.totalAttemptsMade - r.successfulAttemptsCount,
                    totalExecutionTime |-> t - r.requestStartTime ] ]

buildResult(r, success, data, error, t) ==
    [ kind |-> "returned",
      has |-> {"success", "metrics"}
                \cup (IF data # Undefined THEN {"data"} ELSE {})
                \cup (IF error \notin {Undefined, ""} THEN {"error"} ELSE {})
                \cup (IF Len(r.errorLogs) > 0 THEN {"errorLogs"} ELSE {})
                \cup (IF Len(r.successfulAttemptsList) > 0
                      THEN {"successfulAttempts"} ELSE {}),
      success |-> success, data |-> data, error |-> error,
      errorLogs |-> r.errorLogs, successfulAttempts |-> r.successfulAttemptsList,
      metrics |-> [ totalAttempts |-> r.totalAttemptsMade,
                    successfulAttempts |-> r.successfulAttemptsCount,
                    failedAttempts |-> r.totalAttemptsMade - r.successfulAttemptsCount,
                    totalExecutionTime |-> t - r.requestStartTime ] ]

\* every transport call of the call was answered by a 500 response
received500(r) ==
    /\ r.transportCalls >= 1
    /\ \A i \in 1..Len(r.log) : r.log[i].statusCode = 500

\* the call is over: `endedBy` tells what ended the loop, `reported` is the data
\* of the response the result reports, `handled` the errorAnalysisResult
finish(w, result, endedBy, reported, handled, t) ==
    [w EXCEPT !.rq.pc = "done", !.rq.result = result, !.rq.endedBy = endedBy,
              !.rq.reported = reported, !.rq.handled = handled,
              !.rq.streak = IF received500(w.rq) THEN @ + 1 ELSE 0,
              !.rq.streakAt = IF received500(w.rq) THEN t ELSE 0]

blockedMessage(state, currentAttempt) ==
    "stable-request: Circuit breaker is " \o state \o ". Request blocked at attempt "
        \o ToString(currentAttempt) \o "."

openedMessage(currentAttempt, maxAttempts) ==
    "stable-request: Circuit breaker opened after attempt " \o ToString(currentAttempt)
        \o "/" \o ToString(maxAttempts) \o ". Blocking further retries."

\* a catch block that rethrows whatever the caller asked for
catchBlock_rethrows(w, message, finalErrorAnalyzer, t) ==
    [w EXCEPT !.rq.pc = "done", !.rq.result = thrown(w.rq, message),
              !.rq.endedBy = IF @ = "none" THEN "breaker" ELSE @,
              !.rq.analyzed = Append(@, finalErrorAnalyzer),
              !.rq.handled = finalErrorAnalyzer = "true"]

\* the outer catch block (lines 447-485): message is e.message and
\* finalErrorAnalyzer returns true or false or throws
catchBlock(w, message, finalErrorAnalyzer, t) ==
    LET errorAnalysisResult == finalErrorAnalyzer = "true"
        endedBy == IF w.rq.endedBy = "none" THEN "breaker" ELSE w.rq.endedBy
        w1 == [w EXCEPT !.rq.analyzed = Append(@, finalErrorAnalyzer)]
    IN IF ~errorAnalysisResult /\ w.rq.options.throwOnFailedErrorAnalysis
       THEN finish(w1, thrown(w.rq, message), endedBy, Undefined, errorAnalysisResult, t)
       ELSE finish(w1, buildResult(w.rq, FALSE, Undefined, message, t), endedBy,
                   Undefined, errorAnalysisResult, t)

\* the message of the error made at line 405: the error of the last attempt and
\* the request data, stringified
finalError(r) ==
    IF r.res.error # Undefined
    THEN "{\"error\":\"" \o r.res.error \o "\",\"Request Data\":{}}"
    ELSE "{\"Request Data\":{}}"

\* the first test of the termination (line 387)
performedAllWithSuccess_lastOnly(r) == r.options.performAllAttempts /\ r.res.ok

performedAllWithSuccess(r) == r.options.performAllAttempts /\ r.hadAtLeastOneSuccess

\* the termination after the loop (lines 387-446); the error thrown at line
\* 443 is thrown inside the try block, so the outer catch block handles it
termination(w, finalErrorAnalyzer, t) ==
    LET r == w.rq
        o == r.options
        errorAnalysisResult == finalErrorAnalyzer = "true"
        w1 == [w EXCEPT !.rq.analyzed = Append(@, finalErrorAnalyzer)]
    IN IF performedAllWithSuccess(r)
       THEN finish(w, buildResult(r, TRUE,
                                  IF o.resReq THEN r.lastSuccessfulAttemptData ELSE "true",
                                  Undefined, t),
                   "loop", r.lastSuccessfulAttemptData, FALSE, t)
       ELSE IF r.res.ok
       THEN finish(w, buildResult(r, TRUE,
                                  IF o.resReq
                                  THEN (IF r.res.data # Undefined THEN r.res.data
                                        ELSE r.lastSuccessfulAttemptData)
                                  ELSE "true",
                                  Undefined, t),
                   "loop", r.res.data, FALSE, t)
       ELSE IF o.throwOnFailedErrorAnalysis /\ ~errorAnalysisResult
       THEN [w1 EXCEPT !.rq.pc = "caught", !.rq.caught = finalError(r),
                       !.rq.endedBy = "loop"]
       ELSE finish(w1, buildResult(r, FALSE, Undefined,
                                   IF r.res.error # Undefined THEN r.res.error
                                   ELSE "Request failed", t),
                   "loop", Undefined, errorAnalysisResult, t)

\* the condition of the do-while loop (lines 382-385)
loopContinues_unlessOk(r) ==
    r.attempts > 0 /\ (~r.res.ok \/ r.options.performAllAttempts)

loopContinues(r) ==
    r.attempts > 0 /\ ((r.res.isRetryable /\ ~r.res.ok) \/ r.options.performAllAttempts)

\* `${currentAttempt}/${maxAttempts}`
attemptLabel(currentAttempt, maxAttempts) ==
    ToString(currentAttempt) \o "/" \o ToString(maxAttempts)

\* the entry pushed to errorLogs, and the one pushed to successfulAttemptsList
errorLog(r, res, currentAttempt) ==
    [ attempt |-> attemptLabel(currentAttempt, r.maxAttempts),
      error |-> IF res.error # Undefined THEN res.error
                ELSE "stable-request: The response did not match your expectations!",
      type |-> IF ~res.ok THEN "HTTP_ERROR" ELSE "INVALID_CONTENT",
      isRetryable |-> res.isRetryable,
      statusCode |-> res.statusCode ]

successfulAttemptLog(r, res, currentAttempt) ==
    [ attempt |-> attemptLabel(currentAttempt, r.maxAttempts), data |-> res.data,
      statusCode |-> res.statusCode ]

\* a CircuitBreakerOpenError with this message is thrown to the outer catch
throws(w, message) == [w EXCEPT !.rq.pc = "caught", !.rq.caught = message]

\* one iteration from the response of reqFn on (lines 237-385);
\* analyzerThrows tells how a validator rejects
afterReqFn(w, res, currentAttempt, analyzerThrows, t) ==
    LET o == w.rq.options
        originalResOk == res.ok
        performNextAttempt == res.ok /\ ~accepts(o.responseAnalyzer, res.data)
        accepted == res.ok /\ ~performNextAttempt
        verdict == IF ~res.ok THEN "none"
                   ELSE IF accepted THEN "accepted"
                   ELSE IF analyzerThrows THEN "threw" ELSE "rejected"
        entry == [ ok |-> res.ok, isRetryable |-> res.isRetryable,
                   fromCache |-> FALSE, verdict |-> verdict, data |-> res.data,
                   error |-> res.error, statusCode |-> res.statusCode ]
        w1 == [w EXCEPT !.rq.res = res, !.rq.log = Append(@, entry)]
        w2 == IF tracksAttempts(w1)
              THEN withBreaker(w1, IF accepted
                                   THEN recordAttemptSuccess(breakerOf(w1), t)
                                   ELSE recordAttemptFailure(breakerOf(w1), t))
              ELSE w1
        opened == tracksAttempts(w1) /\ ~accepted /\ breakerOf(w2).state = OPEN
        r2 == w2.rq
        r3 == IF ~accepted /\ o.logAllErrors
              THEN [r2 EXCEPT !.errorLogs = Append(@, errorLog(r2, res, currentAttempt))]
              ELSE r2
        r4 == IF accepted
              THEN [r3 EXCEPT
                      !.hadAtLeastOneSuccess = TRUE,
                      !.lastSuccessfulAttemptData = res.data,
                      !.successfulAttemptsCount = @ + 1,
                      !.successfulAttemptsList =
                          IF o.logAllSuccessfulAttempts
                          THEN Append(@, successfulAttemptLog(r3, res, currentAttempt))
                          ELSE @]
              ELSE r3
        r5 == IF performNextAttempt /\ res.isRetryable
              THEN [r4 EXCEPT !.res.ok = FALSE] ELSE r4
        sleeps == /\ r5.attempts > 0
                  /\ \/ ~originalResOk /\ res.isRetryable
                     \/ originalResOk /\ performNextAttempt
                     \/ o.performAllAttempts
        r6 == IF sleeps
              THEN [r5 EXCEPT !.resumeAt =
                       t + delay(getNewDelayTime(o.retryStrategy, o.wait, currentAttempt),
                                 o.maxAllowedWait)]
              ELSE r5
        w6 == [w2 EXCEPT !.rq = r6]
    IN IF opened
       THEN throws(w2, openedMessage(currentAttempt, w2.rq.maxAttempts))
       ELSE IF loopContinues(r6) THEN w6
       ELSE [w6 EXCEPT !.rq.pc = "ended"]

\* one iteration of the do-while loop (lines 196-385); reqFn never throws, so
\* the catch of lines 223-236 is not entered
iteration(w, transport, analyzerThrows, t) ==
    LET r0 == [w.rq EXCEPT !.attempts = @ - 1]
        currentAttempt == r0.maxAttempts - r0.attempts
        w1 == [w EXCEPT !.rq = [r0 EXCEPT !.totalAttemptsMade = currentAttempt]]
        asks == hasBreaker(w1)
                  /\ (breakerOf(w1).config.trackIndividualAttempts \/ currentAttempt = 1)
        admitted == IF asks THEN canExecuteResult(breakerOf(w1), t) ELSE TRUE
        w2 == IF asks THEN withBreaker(w1, canExecute(breakerOf(w1), t)) ELSE w1
        f == reqFn(w2.cm, generateAxiosRequestConfig(w2.rq.options.reqData),
                   w2.rq.options.resReq, w2.rq.options.cache, transport, t)
        w3 == [w2 EXCEPT !.cm = f.cm,
                         !.rq.transportCalls = @ + (IF f.called THEN 1 ELSE 0)]
        hit == [ ok |-> TRUE, isRetryable |-> TRUE, fromCache |-> TRUE,
                 verdict |-> "none", data |-> f.res.data, error |-> Undefined,
                 statusCode |-> f.res.statusCode ]
    IN IF ~admitted
       THEN throws(w2, blockedMessage(breakerOf(w2).state, currentAttempt))
       ELSE IF f.res.fromCache /\ f.res.ok
       THEN finish([w3 EXCEPT !.rq.res = f.res, !.rq.log = Append(@, hit)],
                   buildResult(w3.rq, TRUE,
                               IF w3.rq.options.resReq THEN f.res.data ELSE "true",
                               Undefined, t),
                   "cache", f.res.data, FALSE, t)
       ELSE afterReqFn(w3, f.res, currentAttempt, analyzerThrows, t)

\* ------------------------------------- executeWithPersistence (part_004:7-82)

NoHooks == [calls |-> <<>>, steps |-> <<>>]

\* a body that is called at once, as withBuffer does for a plain object
withBuffer_direct(ts, after) == TRUE

\* withBuffer with a StableBuffer: buffer.run(fn, options), so that the body
\* is called when this.queue as run() found it has settled
withBuffer(ts, after) == queueSettled(ts, after)

\* persistenceConfig?.loadBeforeHooks && persistenceConfig.persistenceFunction
loadsBefore(call) ==
    call.persistence.loadBeforeHooks /\ call.persistence.persistenceFunction # "none"

\* persistenceConfig?.storeAfterHooks && persistenceConfig.persistenceFunction
storesAfter(call) ==
    call.persistence.storeAfterHooks /\ call.persistence.persistenceFunction # "none"

\* the call: its body is handed to withBuffer; `seen` is the number of steps
\* taken so far by the bodies of other calls
newHookCall(persistence, hookFn, seen) ==
    [ persistence |-> persistence, hookFn |-> hookFn, seen |-> seen,
      pc |-> "queued", loaded |-> "no", hookInvoked |-> FALSE, stored |-> "no",
      result |-> "none" ]

\* the body is called
bodyBegin(call) == [call EXCEPT !.pc = IF loadsBefore(call) THEN "load" ELSE "hook"]

\* the load-before step: what persistenceFunction throws is caught and logged
loadBefore(call) ==
    [call EXCEPT !.pc = "hook",
                 !.loaded = IF call.persistence.persistenceFunction = "throws"
                            THEN "failed" ELSE "done"]

\* Object.assign(bufferState, loadedState): the loaded state is written as
\* the negative of the mark of the transaction
loadBeforeWrites(b, call, tx) ==
    IF call.persistence.persistenceFunction = "throws" THEN b
    ELSE [b EXCEPT !.state = Append(@, 0 - tx.transactionId[3])]

\* a body that goes on to the store-after step when the hook has thrown
hookBody_storesAfterThrow(call) ==
    [call EXCEPT !.hookInvoked = TRUE,
                 !.result = IF call.hookFn = "returns" THEN "value" ELSE "error",
                 !.pc = IF storesAfter(call) THEN "store" ELSE "end"]

\* the hook: what it throws leaves the body, what it returns is kept as result
hookBody(call) ==
    [call EXCEPT !.hookInvoked = TRUE,
                 !.result = IF call.hookFn = "returns" THEN "value" ELSE "error",
                 !.pc = IF call.hookFn = "returns" /\ storesAfter(call)
                        THEN "store" ELSE "end"]

\* the store-after step: what persistenceFunction throws is caught and logged
storeAfter(call) ==
    [call EXCEPT !.pc = "end",
                 !.stored = IF call.persistence.persistenceFunction = "throws"
                            THEN "failed" ELSE "done"]

\* how the body settles: `return result`, or the error of the hook
bodyOutcome(call) == IF call.result = "value" THEN "resolved" ELSE "rejected"

\* --------------------------- replayStableBufferTransactions (part_002:494-598)

\* the decimal digits of n, as `${n}` writes them
RECURSIVE digits(_)
digits(n) == IF n < 10 THEN <<n>> ELSE Append(digits(n \div 10), n % 10)

\* the characters of a transactionId after 'stable-buffer-': the digits of
\* Date.now(), a hyphen (-1: it collates before the digits) and the digits of
\* the sequence number; <<>> is the empty string
idString(transactionId) ==
    IF transactionId = <<>> THEN <<>>
    ELSE digits(transactionId[2]) \o <<-1>> \o digits(transactionId[3])

\* String.prototype.localeCompare on two such strings: negative, 0 or positive
RECURSIVE localeCompare(_, _)
localeCompare(a, b) ==
    IF a = <<>> THEN (IF b = <<>> THEN 0 ELSE -1)
    ELSE IF b = <<>> THEN 1
    ELSE IF Head(a) # Head(b) THEN Head(a) - Head(b)
    ELSE localeCompare(Tail(a), Tail(b))

\* resolveTimestamp: the logs carry toISOString() of a time in ms, which
\* Date.parse gives back; 0 stands for an absent or unparsable value
resolveTimestamp(value) == IF value <= 0 THEN 0 ELSE value

\* the comparator of orderLogs
compareLogs(a, b) ==
    LET byStarted == resolveTimestamp(a.startedAt) - resolveTimestamp(b.startedAt)
        byQueued == resolveTimestamp(a.queuedAt) - resolveTimestamp(b.queuedAt)
    IN IF byStarted # 0 THEN byStarted
       ELSE IF byQueued # 0 THEN byQueued
       ELSE localeCompare(idString(a.transactionId), idString(b.transactionId))

\* Array.prototype.sort is stable: log goes after the logs of the sorted list
\* that do not compare greater than it
RECURSIVE insertLog(_, _)
insertLog(sorted, log) ==
    IF sorted = <<>> THEN <<log>>
    ELSE IF compareLogs(Head(sorted), log) <= 0
         THEN <<Head(sorted)>> \o insertLog(Tail(sorted), log)
         ELSE <<log>> \o sorted

RECURSIVE orderLogs(_)
orderLogs(entries) ==
    IF entries = <<>> THEN <<>>
    ELSE insertLog(orderLogs(SubSeq(entries, 1, Len(entries) - 1)), entries[Len(entries)])

\* the handlers in use: 'apply' repeats the write of the transaction and
\* returns, 'fail' throws, and no other hook name has a handler
resolveHookHandler(hookName) ==
    IF hookName \in {"apply", "fail"} THEN hookName ELSE "undefined"

\* the activityFilter in use lets the logs of activity 'hook' through
activityFilter(r, log) == r.options.activityFilter = "none" \/ log.activity = "hook"

NoReplay ==
    [ pc |-> "idle",
      options |-> [dedupe |-> TRUE, sort |-> TRUE, activityFilter |-> "none",
                   allowUnknownHooks |-> FALSE],
      logs |-> <<>>, orderedLogs |-> <<>>, pos |-> 0,
      appliedIds |-> {}, applied |-> 0, skipped |-> 0, errors |-> <<>>,
      state |-> <<>>, invoked |-> <<>>, skips |-> <<>> ]

\* the call up to its loop: a fresh buffer with initialState
newReplay(options, inputLogs, initialState) ==
    [ NoReplay EXCEPT
        !.pc = IF inputLogs = <<>> THEN "done" ELSE "running",
        !.options = options,
        !.logs = inputLogs,
        !.orderedLogs = IF options.sort THEN orderLogs(inputLogs) ELSE inputLogs,
        !.pos = 1,
        !.state = initialState ]

\* the loop goes to its next log, or the call returns
replayNext(r) ==
    [r EXCEPT !.pos = @ + 1,
              !.pc = IF r.pos >= Len(r.orderedLogs) THEN "done" ELSE "running"]

\* a skip that is reported and not counted
replaySkip_uncounted(r, reason) ==
    replayNext([r EXCEPT !.skips = Append(@, <<r.pos, reason>>)])

\* skipped += 1; onSkip?.(log, reason); continue
replaySkip(r, reason) ==
    replayNext([r EXCEPT !.skipped = @ + 1, !.skips = Append(@, <<r.pos, reason>>)])

\* errors.push({ log, error })
replayError(r) == replayNext([r EXCEPT !.errors = Append(@, r.pos)])

\* an apply that does not remember the transactionId
replayApply_forgetsId(r, log) ==
    replayNext([r EXCEPT !.applied = @ + 1,
                         !.state = Append(@, IF log.transactionId = <<>> THEN 0
                                             ELSE log.transactionId[3]),
                         !.invoked = Append(@, r.pos)])

\* resolvedBuffer.run((state) => handler(state, log)) of a handler that
\* returns, and the lines after it
replayApply(r, log) ==
    replayNext([r EXCEPT !.applied = @ + 1,
                         !.state = Append(@, IF log.transactionId = <<>> THEN 0
                                             ELSE log.transactionId[3]),
                         !.invoked = Append(@, r.pos),
                         !.appliedIds = IF r.options.dedupe /\ log.transactionId # <<>>
                                        THEN @ \cup {log.transactionId} ELSE @])

\* one iteration of the loop over orderedLogs (lines 542-590)
replayStep(r) ==
    LET log == r.orderedLogs[r.pos]
        handler == resolveHookHandler(log.hookName)
    IN IF ~activityFilter(r, log) THEN replaySkip(r, "filtered")
       ELSE IF r.options.dedupe /\ log.transactionId # <<>>
                 /\ log.transactionId \in r.appliedIds
            THEN replaySkip(r, "duplicate")
       ELSE IF handler = "undefined"
            THEN IF ~r.options.allowUnknownHooks THEN replayError(r)
                 ELSE replaySkip(r, "missing-handler")
       ELSE IF handler = "fail"
            THEN replayError([r EXCEPT !.invoked = Append(@, r.pos)])
       ELSE replayApply(r, log)

\* the buffer whose logs are replayed: `count` run() calls of bodies that
\* return, `gapMs` apart from time t on, each started when it is enqueued;
\* the value is the buffer and the entries handed to its logTransaction,
\* which carry the hookName and the activity given to run()
RECURSIVE recordedRuns(_, _, _, _, _)
recordedRuns(b, entries, count, t, gapMs) ==
    IF count = 0 THEN [buffer |-> b, recorded |-> entries]
    ELSE LET queued == newTransaction(b, "returns", t)
             b1 == bufferRun(b)
             b2 == taskStartBuffer(b1, queued, t)
             started == taskStart(b1, queued, t)
             done == taskFinish(b2, started, t)
             b3 == fnWrites(b2, started)
             entry == logEntry(done) @@ [hookName |-> "apply", activity |-> "hook"]
         IN recordedRuns(b3, Append(entries, entry), count - 1, t + gapMs, gapMs)

\* ---------------------------------------- the breaker driven by its callers

\* the configurations handed to the constructor
BreakerConfigs ==
    [ failureThresholdPercentage : {50},
      minimumRequests : {0, 2},
      recoveryTimeoutMs : {1000},
      successThresholdPercentage : {50},
      halfOpenMaxRequests : {1, 2},
      trackIndividualAttempts : BOOLEAN ]

NoCall == [op |-> "none", ret |-> TRUE, at |-> 0]

NoCacheCall == [op |-> "none", key |-> <<>>, ret |-> NoEntry, at |-> 0,
                removed |-> {}, lru |-> {}, had |-> NoEntry,
                missed |-> 0, expired |-> 0]

\* a cache manager nobody uses
IdleCache ==
    /\ cm = NewCacheManager([enabled |-> TRUE, ttl |-> 1000, maxSize |-> 1])
    /\ cmLast = NoCacheCall
    /\ recency = <<>>

\* a buffer nobody uses
IdleBuffer ==
    /\ buf = NewStableBuffer([initialState |-> <<>>, transactionTimeoutMs |-> 0,
                              logTransaction |-> "none"])
    /\ txs = <<>>
    /\ logs = <<>>
    /\ co = NewCoordinators(<<"cache-manager", "cache-manager">>, "transaction")
    /\ own = NoOwner

\* no call of stableRequest
IdleRequest == rq = NoRequest

IdleCalls == ex = NoExecute /\ rp = NoReplay /\ hk = NoHooks /\ dl = NoSleeps /\ fl = NoFlight /\ hp = 0 /\ ns = {}

\* a breaker nobody uses
IdleBreaker ==
    /\ cb = NewCircuitBreaker(CHOOSE config \in BreakerConfigs : TRUE, TickMs)
    /\ cbLast = NoCall @@ [pre |-> cb]
    /\ lastFailAt = 0
    /\ probe = [n |-> 0, ok |-> 0]

InitBreaker ==
    /\ now = TickMs
    /\ \E config \in BreakerConfigs : cb = NewCircuitBreaker(config, TickMs)
    /\ cbLast = NoCall @@ [pre |-> cb]
    /\ lastFailAt = 0
    /\ probe = [n |-> 0, ok |-> 0]
    /\ IdleCache
    /\ IdleBuffer
    /\ IdleRequest
    /\ IdleCalls

Called(op, ret) == cbLast' = [op |-> op, ret |-> ret, at |-> now, pre |-> cb]

\* the history of the half-open probe after a call that recorded `outcomes`
\* request-level outcomes, `oks` of them successes
Probed(outcomes, oks) ==
    probe' = IF cb.state = HALF_OPEN
             THEN [n |-> probe.n + outcomes, ok |-> probe.ok + oks]
             ELSE IF cb'.state = HALF_OPEN THEN [n |-> 0, ok |-> 0]
             ELSE probe

\* the clock advances; it does not while a call of stableRequest has a step to
\* take: the steps of a call between two sleeps take no time
\* the clock advances when nothing is due: a call in progress is asleep, and
\* the timers that are due have fired (bodies await, they do not keep the
\* thread busy)
Tick ==
    /\ now + TickMs <= MaxNow
    /\ rq.pc \in {"idle", "done"} \/ (rq.pc = "loop" /\ now < rq.resumeAt)
    /\ \A i \in 1..Len(txs) : ~timeoutDue(buf, txs[i], now)
    /\ now' = now + TickMs
    /\ cbLast' = NoCall @@ [pre |-> cb]
    /\ cmLast' = NoCacheCall
    /\ UNCHANGED <<cb, lastFailAt, probe, cm, recency, bufferVars, requestVars, callVars>>

CanExecute ==
    /\ cb.stateTransitions < MaxTransitions
    /\ cb' = canExecute(cb, now)
    /\ Called("canExecute", canExecuteResult(cb, now))
    /\ Probed(0, 0)
    /\ UNCHANGED <<now, lastFailAt, notBreaker>>

RecordSuccess ==
    /\ cb.totalRequests < MaxOutcomes /\ cb.stateTransitions < MaxTransitions
    /\ cb' = recordSuccess(cb, now)
    /\ Called("recordSuccess", TRUE)
    /\ Probed(1, 1)
    /\ UNCHANGED <<now, lastFailAt, notBreaker>>

RecordFailure ==
    /\ cb.totalRequests < MaxOutcomes /\ cb.stateTransitions < MaxTransitions
    /\ cb' = recordFailure(cb, now)
    /\ Called("recordFailure", TRUE)
    /\ Probed(1, 0)
    /\ lastFailAt' = now
    /\ UNCHANGED <<now, notBreaker>>

RecordAttemptSuccess ==
    /\ cb.totalAttempts < MaxOutcomes /\ cb.stateTransitions < MaxTransitions
    /\ cb' = recordAttemptSuccess(cb, now)
    /\ Called("recordAttemptSuccess", TRUE)
    /\ Probed(0, 0)
    /\ UNCHANGED <<now, lastFailAt, notBreaker>>

RecordAttemptFailure ==
    /\ cb.totalAttempts < MaxOutcomes /\ cb.stateTransitions < MaxTransitions
    /\ cb' = recordAttemptFailure(cb, now)
    /\ Called("recordAttemptFailure", TRUE)
    /\ Probed(0, 0)
    /\ lastFailAt' = now
    /\ UNCHANGED <<now, notBreaker>>

Reset ==
    /\ cb' = reset(cb)
    /\ Called("reset", TRUE)
    /\ UNCHANGED <<now, lastFailAt, probe, notBreaker>>

\* execute(fn) is called and runs up to its await of fn()
ExecuteBegin ==
    /\ ex.pc # "running"
    /\ cb.stateTransitions < MaxTransitions
    /\ LET e == executeBegin(cb, now)
       IN /\ cb' = e.cb
          /\ ex' = e.ex
          /\ Called("execute", e.canExecute)
    /\ Probed(0, 0)
    /\ UNCHANGED <<now, lastFailAt, cacheVars, bufferVars, requestVars, rp, hk, sideVars>>

\* fn() settles and execute(fn) records it and settles too
ExecuteEnd ==
    /\ ex.pc = "running"
    /\ cb.totalRequests < MaxOutcomes /\ cb.stateTransitions < MaxTransitions
    /\ \E fn \in {"resolves", "throws"} :
         LET e == executeEnd(cb, ex, fn, now)
         IN /\ cb' = e.cb
            /\ ex' = e.ex
            /\ Called("execute:fn", fn = "resolves")
            /\ Probed(1, IF fn = "resolves" THEN 1 ELSE 0)
            /\ lastFailAt' = IF fn = "resolves" THEN lastFailAt ELSE now
    /\ UNCHANGED <<now, cacheVars, bufferVars, requestVars, rp, hk, sideVars>>

NextBreaker ==
    \/ Tick
    \/ CanExecute
    \/ RecordSuccess
    \/ RecordFailure
    \/ RecordAttemptSuccess
    \/ RecordAttemptFailure
    \/ Reset

SpecBreaker == InitBreaker /\ [][NextBreaker]_vars

\* the breaker guarding the calls made through execute(fn), while other
\* callers record their own outcomes on it
NextExecute ==
    \/ Tick
    \/ ExecuteBegin
    \/ ExecuteEnd
    \/ RecordSuccess
    \/ RecordFailure

SpecExecute == InitBreaker /\ [][NextExecute]_vars

\* a breaker with minimumRequests 1 that records outcomes over a long window
WindowConfigs ==
    [ failureThresholdPercentage : {50},
      minimumRequests : {1},
      recoveryTimeoutMs : {1000},
      successThresholdPercentage : {50},
      halfOpenMaxRequests : {1},
      trackIndividualAttempts : BOOLEAN ]

InitWindow ==
    /\ now = TickMs
    /\ \E config \in WindowConfigs : cb = NewCircuitBreaker(config, TickMs)
    /\ cbLast = NoCall @@ [pre |-> cb]
    /\ lastFailAt = 0
    /\ probe = [n |-> 0, ok |-> 0]
    /\ IdleCache
    /\ IdleBuffer
    /\ IdleRequest
    /\ IdleCalls

\* the window has room for one more outcome
InWindow == cb.totalRequests + cb.totalAttempts <= MaxWindow

WindowSuccess ==
    /\ InWindow
    /\ cb' = recordSuccess(cb, now)
    /\ Called("recordSuccess", TRUE)
    /\ UNCHANGED <<now, lastFailAt, probe, notBreaker>>

WindowFailure ==
    /\ InWindow
    /\ cb' = recordFailure(cb, now)
    /\ Called("recordFailure", TRUE)
    /\ lastFailAt' = now
    /\ UNCHANGED <<now, probe, notBreaker>>

WindowAttemptSuccess ==
    /\ InWindow
    /\ cb' = recordAttemptSuccess(cb, now)
    /\ Called("recordAttemptSuccess", TRUE)
    /\ UNCHANGED <<now, lastFailAt, probe, notBreaker>>

WindowAttemptFailure ==
    /\ InWindow
    /\ cb' = recordAttemptFailure(cb, now)
    /\ Called("recordAttemptFailure", TRUE)
    /\ lastFailAt' = now
    /\ UNCHANGED <<now, probe, notBreaker>>

NextWindow ==
    \/ WindowSuccess
    \/ WindowFailure
    \/ WindowAttemptSuccess
    \/ WindowAttemptFailure

SpecWindow == InitWindow /\ [][NextWindow]_vars

\* ------------------------------------- the cache manager driven by its callers

CacheConfigs == [enabled : {TRUE}, ttl : {1000}, maxSize : {1, 2}]

CacheRequests ==
    [method : {"GET"}, url : {"/a", "/b", "/c"}] \cup {[method |-> "post", url |-> "/a"]}

\* responses: cacheable and not, with and without caching headers
CacheStatuses == {200, 500}
CacheHeaders ==
    { [cacheControl |-> "", maxAge |-> 0, expires |-> 0],
      [cacheControl |-> "no-store", maxAge |-> 0, expires |-> 0] }

InitCache ==
    /\ now = TickMs
    /\ \E config \in CacheConfigs : cm = NewCacheManager(config)
    /\ cmLast = NoCacheCall
    /\ recency = <<>>
    /\ IdleBreaker
    /\ IdleBuffer
    /\ IdleRequest
    /\ IdleCalls

CacheCalled(op, key, ret) ==
    cmLast' = [op |-> op, key |-> key, ret |-> ret, at |-> now,
               removed |-> DOMAIN cm.cache \ DOMAIN cm'.cache,
               lru |-> IF recency = <<>> THEN {} ELSE {Head(recency)},
               had |-> IF key \in DOMAIN cm.cache THEN cm.cache[key] ELSE NoEntry,
               missed |-> cm'.misses - cm.misses,
               expired |-> cm'.expirations - cm.expirations]

\* the history of uses after a call: `used` is the set holding the key the call
\* used (stored, or returned on a hit), or the empty set
Recency(used) ==
    LET kept == SelectSeq(recency, LAMBDA k : k \in DOMAIN cm'.cache /\ k \notin used)
    IN recency' = IF used = {} THEN kept ELSE Append(kept, CHOOSE k \in used : TRUE)

CacheGet ==
    /\ cm.hits + cm.misses < MaxGets
    /\ \E reqConfig \in CacheRequests :
         /\ cm' = cacheGet(cm, reqConfig, now)
         /\ CacheCalled("get", generateKey(reqConfig), cacheGetResult(cm, reqConfig, now))
         /\ Recency(IF cm'.hits > cm.hits THEN {generateKey(reqConfig)} ELSE {})
    /\ UNCHANGED <<now, notCache>>

CacheSet ==
    /\ cm.sets < MaxSets
    /\ \E reqConfig \in CacheRequests, status \in CacheStatuses, headers \in CacheHeaders :
         /\ cm' = cacheSet(cm, reqConfig, "ok", status, headers, now)
         /\ CacheCalled("set", generateKey(reqConfig), NoEntry)
         /\ Recency(IF cm'.sets > cm.sets THEN {generateKey(reqConfig)} ELSE {})
    /\ UNCHANGED <<now, notCache>>

CacheDelete ==
    /\ \E reqConfig \in CacheRequests :
         /\ cm' = cacheDelete(cm, reqConfig)
         /\ CacheCalled("delete", generateKey(reqConfig), NoEntry)
         /\ Recency({})
    /\ UNCHANGED <<now, notCache>>

CachePrune ==
    /\ cm' = cachePrune(cm, now)
    /\ CacheCalled("prune", <<>>, NoEntry)
    /\ Recency({})
    /\ UNCHANGED <<now, notCache>>

CacheClear ==
    /\ cm' = cacheClear(cm)
    /\ CacheCalled("clear", <<>>, NoEntry)
    /\ Recency({})
    /\ UNCHANGED <<now, notCache>>

NextCache ==
    \/ Tick
    \/ CacheGet
    \/ CacheSet
    \/ CacheDelete
    \/ CachePrune
    \/ CacheClear

SpecCache == InitCache /\ [][NextCache]_vars

\* a cache manager built with any ttl, storing responses with every kind of
\* caching header: Cache-Control absent, no-cache, no-store, max-age=0 or
\* max-age=1, and Expires absent, in the past or in the future
TtlConfigs == [enabled : {TRUE}, ttl : {0, 2 * TickMs}, maxSize : {2}]

TtlHeaders ==
    [ cacheControl : {"", "no-cache", "no-store"}, maxAge : {0},
      expires : {0, TickMs, MaxNow + TickMs} ]
    \cup [cacheControl : {"max-age"}, maxAge : {0, 1}, expires : {0, TickMs}]

TtlRequests == [method : {"GET"}, url : {"/a", "/b"}]

InitTtl ==
    /\ now = TickMs
    /\ \E config \in TtlConfigs : cm = NewCacheManager(config)
    /\ cmLast = NoCacheCall
    /\ recency = <<>>
    /\ IdleBreaker
    /\ IdleBuffer
    /\ IdleRequest
    /\ IdleCalls

TtlSet ==
    /\ cm.sets < MaxTtlSets
    /\ \E reqConfig \in TtlRequests, headers \in TtlHeaders :
         /\ cm' = cacheSet(cm, reqConfig, "ok", 200, headers, now)
         /\ CacheCalled("set", generateKey(reqConfig), NoEntry)
         /\ Recency(IF cm'.sets > cm.sets THEN {generateKey(reqConfig)} ELSE {})
    /\ UNCHANGED <<now, notCache>>

NextTtl ==
    \/ Tick
    \/ TtlSet
    \/ CacheGet

SpecTtl == InitTtl /\ [][NextTtl]_vars

\* ------------------------------------------ the buffer driven by its callers

\* a buffer without and with a transaction timeout, and without a logger, with
\* one, and with one that throws
\* the budget given to the transactions: a whole number of clock steps, so
\* that the clock reaches the instant at which the timer is due
BufferTimeoutMs == 2 * TickMs

BufferOptions ==
    [ initialState : {<<>>},
      transactionTimeoutMs : {0, BufferTimeoutMs},
      logTransaction : {"none", "logs", "throws"} ]

\* what a body does after its write
BufferBodies == {"returns", "throws"}

InitBuffer ==
    /\ now = TickMs
    /\ \E options \in BufferOptions : buf = NewStableBuffer(options)
    /\ txs = <<>>
    /\ logs = <<>>
    /\ co = NewCoordinators(<<"cache-manager", "cache-manager">>, "transaction")
    /\ own = NoOwner
    /\ IdleBreaker
    /\ IdleCache
    /\ IdleRequest
    /\ IdleCalls

\* run(fn)
BufRun ==
    /\ buf.transactionSequence < MaxTransactions
    /\ \E fn \in BufferBodies : txs' = Append(txs, newTransaction(buf, fn, now))
    /\ buf' = bufferRun(buf)
    /\ UNCHANGED <<now, logs, notBuffer>>

\* the task of transaction i is called: this.queue.then(task, task)
BufStart(i) ==
    /\ txs[i].status = "queued"
    /\ queueSettled(txs, txs[i].after)
    /\ buf' = taskStartBuffer(buf, txs[i], now)
    /\ txs' = [txs EXCEPT ![i] = taskStart(buf, @, now)]
    /\ UNCHANGED <<now, logs, notBuffer>>

\* the body of transaction i settles and its task runs to its end
BufFinish(i) ==
    /\ txs[i].status = "running"
    /\ buf' = fnWrites(buf, txs[i])
    /\ txs' = [txs EXCEPT ![i] = taskFinish(buf, @, now)]
    /\ logs' = IF buf.logTransaction = "none" THEN logs
               ELSE Append(logs, logEntry(txs'[i]))
    /\ UNCHANGED <<now, notBuffer>>

\* the timer of wrapWithTimeout fires for transaction i
BufTimeout(i) ==
    /\ timeoutDue(buf, txs[i], now)
    /\ txs' = [txs EXCEPT ![i] = timeoutFires(buf, @)]
    /\ UNCHANGED <<now, buf, logs, notBuffer>>

BufStarts == \E i \in 1..Len(txs) : BufStart(i)
BufFinishes == \E i \in 1..Len(txs) : BufFinish(i)
BufTimeouts == \E i \in 1..Len(txs) : BufTimeout(i)

NextBuffer ==
    \/ Tick
    \/ BufRun
    \/ BufStarts
    \/ BufFinishes
    \/ BufTimeouts

\* a task is called once the promise it is chained on has settled, and every
\* body settles
SpecBuffer ==
    InitBuffer /\ [][NextBuffer]_vars /\ WF_vars(BufStarts) /\ WF_vars(BufFinishes)

\* ------------------------------- bodies that call run() on their own buffer

\* a body that calls run() on the buffer it runs on and awaits the result
\* without catching what the await throws
NestedBodies == BufferBodies \cup {"nests"}

\* the transaction the body of transaction i awaits (0: none)
awaited(i) == IF \E p \in ns : p[1] = i THEN (CHOOSE p \in ns : p[1] = i)[2] ELSE 0

\* run(fn) by a caller outside the bodies
NestedRun ==
    /\ buf.transactionSequence < MaxTransactions
    /\ \E fn \in NestedBodies : txs' = Append(txs, newTransaction(buf, fn, now))
    /\ buf' = bufferRun(buf)
    /\ UNCHANGED <<now, logs, notBuffer>>

\* the running body of transaction i calls run(fn) and awaits the promise
NestedCall(i) ==
    /\ txs[i].status = "running" /\ txs[i].fn = "nests" /\ awaited(i) = 0
    /\ buf.transactionSequence < MaxTransactions
    /\ \E fn \in BufferBodies : txs' = Append(txs, newTransaction(buf, fn, now))
    /\ buf' = bufferRun(buf)
    /\ ns' = ns \cup {<<i, Len(txs) + 1>>}
    /\ UNCHANGED <<now, logs, breakerVars, cacheVars, requestVars, ex, rp, hk, dl, fl, hp,
                   co, own>>

\* what the body of transaction i does at its end: a body that awaits a run()
\* returns or throws as the promise that run() returned resolved or rejected
bodyEnd(i) ==
    IF txs[i].fn # "nests" THEN txs[i].fn
    ELSE IF txs[awaited(i)].caller = "resolved" THEN "returns" ELSE "throws"

\* the body of transaction i settles and its task runs to its end; a body
\* that awaits a run() settles once the promise that run() returned has
NestedFinish(i) ==
    /\ txs[i].status = "running"
    /\ txs[i].fn = "nests" => awaited(i) # 0 /\ txs[awaited(i)].caller # "pending"
    /\ buf' = fnWrites(buf, txs[i])
    /\ txs' = [txs EXCEPT ![i] =
                 [taskFinish(buf, [@ EXCEPT !.fn = bodyEnd(i)], now) EXCEPT !.fn = txs[i].fn]]
    /\ logs' = IF buf.logTransaction = "none" THEN logs
               ELSE Append(logs, logEntry(txs'[i]))
    /\ UNCHANGED <<now, notBuffer>>

NestedCalls == \E i \in 1..Len(txs) : NestedCall(i)
NestedFinishes == \E i \in 1..Len(txs) : NestedFinish(i)

NextNested ==
    \/ Tick
    \/ NestedRun
    \/ NestedCalls
    \/ BufStarts
    \/ NestedFinishes
    \/ BufTimeouts

SpecNested ==
    InitBuffer /\ [][NextNested]_vars /\ WF_vars(BufStarts) /\ WF_vars(NestedFinishes)
        /\ WF_vars(NestedCalls)

\* --------------------- the persistence coordinators of one buffer, and its owner

Coordinators == {1, 2}
\* two cache managers, or a cache manager and a circuit breaker
CoordinatorLabels ==
    { <<"cache-manager", "cache-manager">>, <<"cache-manager", "circuit-breaker">> }
PersistenceHooks == {"transaction", "loadStore"}

InitCoordinator ==
    /\ now = TickMs
    /\ buf = NewStableBuffer([initialState |-> <<>>, transactionTimeoutMs |-> 0,
                              logTransaction |-> "none"])
    /\ txs = <<>>
    /\ logs = <<>>
    /\ \E labels \in CoordinatorLabels, hooks \in PersistenceHooks :
         co = NewCoordinators(labels, hooks)
    /\ own = NoOwner
    /\ IdleBreaker
    /\ IdleCache
    /\ IdleRequest
    /\ IdleCalls

\* coordinator k calls runTransaction for an operation of this type; fn tells
\* how the hook will settle
Operate(k, type, fn) ==
    /\ buf.transactionSequence < MaxOperations
    /\ txs' = Append(txs, newTransaction(buf, fn, now))
    /\ buf' = bufferRun(buf)
    /\ co' = [co EXCEPT !.operationCounter[k] = @ + 1,
                        !.operations = Append(@, newOperation(co, k, type, now)),
                        !.results = Append(@, "pending"),
                        !.found = Append(@, FALSE)]
    /\ UNCHANGED <<now, logs, notCoordinator>>

\* load()
CoordinatorLoad == \E k \in Coordinators, fn \in BufferBodies : Operate(k, "load", fn)

\* store(state)
CoordinatorStore == \E k \in Coordinators, fn \in BufferBodies : Operate(k, "store", fn)

\* the task of transaction i is called and the body of runTransaction runs up to
\* its return or to the call of the hook
CoordinatorStart(i) ==
    /\ txs[i].status = "queued"
    /\ queueSettled(txs, txs[i].after)
    /\ LET operation == co.operations[i]
           skips == runTransactionSkips(buf.state, operation)
       IN /\ buf' = [taskStartBuffer(buf, txs[i], now) EXCEPT
                        !.state = runTransactionState(buf.state, operation)]
          /\ txs' = [txs EXCEPT ![i] = taskStart(buf, @, now)]
          /\ co' = [co EXCEPT
                     !.results[i] = IF skips THEN "skipped" ELSE "hook",
                     !.found[i] = operation.operationId \in processedOperations(buf.state),
                     !.hooks = IF skips THEN @
                               ELSE Append(@, [hook |-> hookFor(co, operation),
                                               operationId |-> operation.operationId,
                                               tx |-> i,
                                               epoch |-> co.setStates])]
    /\ UNCHANGED <<now, logs, notCoordinator>>

\* the body of transaction i settles: at once when it skipped, as the hook does
\* otherwise
CoordinatorFinish(i) ==
    /\ txs[i].status = "running"
    /\ LET outcome == IF co.results[i] = "skipped" \/ txs[i].fn = "returns"
                      THEN "resolved" ELSE "rejected"
       IN txs' = [txs EXCEPT ![i] = taskSettle(buf, @, outcome, now)]
    /\ UNCHANGED <<now, buf, logs, co, notCoordinator>>

\* the owner of the buffer replaces its state by an empty object
OwnerSetState ==
    /\ co.setStates < MaxSetStates
    /\ buf' = setState(buf, <<>>)
    /\ co' = [co EXCEPT !.setStates = @ + 1]
    /\ UNCHANGED <<now, txs, logs, notCoordinator>>

CoordinatorStarts == \E i \in 1..Len(txs) : CoordinatorStart(i)
CoordinatorFinishes == \E i \in 1..Len(txs) : CoordinatorFinish(i)

\* time passes for the coordinators
CoordinatorTick == now + TickMs <= MaxCoordinatorNow /\ Tick

NextCoordinator ==
    \/ CoordinatorTick
    \/ CoordinatorLoad
    \/ CoordinatorStore
    \/ CoordinatorStarts
    \/ CoordinatorFinishes
    \/ OwnerSetState

SpecCoordinator == InitCoordinator /\ [][NextCoordinator]_vars

\* ------------------------------- the buffer driven by its callers and its owner

InitOwned ==
    /\ now = TickMs
    /\ buf = NewStableBuffer([initialState |-> <<>>, transactionTimeoutMs |-> 0,
                              logTransaction |-> "logs"])
    /\ txs = <<>>
    /\ logs = <<>>
    /\ co = NewCoordinators(<<"cache-manager", "cache-manager">>, "transaction")
    /\ own = NoOwner
    /\ IdleBreaker
    /\ IdleCache
    /\ IdleRequest
    /\ IdleCalls

\* run(fn), update(fn) and transaction(fn)
OwnedRun ==
    /\ buf.transactionSequence < MaxTransactions
    /\ \E fn \in BufferBodies : txs' = Append(txs, newTransaction(buf, fn, now))
    /\ buf' = bufferRun(buf)
    /\ own' = [own EXCEPT !.began = Append(@, 0), !.ended = Append(@, 0)]
    /\ UNCHANGED <<now, logs, notOwner>>

\* the task of transaction i is called
OwnedStart(i) ==
    /\ txs[i].status = "queued"
    /\ queueSettled(txs, txs[i].after)
    /\ buf' = taskStartBuffer(buf, txs[i], now)
    /\ txs' = [txs EXCEPT ![i] = taskStart(buf, @, now)]
    /\ own' = [own EXCEPT !.began[i] = own.writes]
    /\ UNCHANGED <<now, logs, notOwner>>

\* the body of transaction i makes its write and settles, and its task runs to
\* its end
OwnedFinish(i) ==
    /\ txs[i].status = "running"
    /\ buf' = fnWritesTo(buf, txs[i], i \in own.detached)
    /\ txs' = [txs EXCEPT ![i] =
                  taskSettle(buf', @, IF @.fn = "returns" THEN "resolved" ELSE "rejected",
                             now)]
    /\ logs' = Append(logs, logEntry(txs'[i]))
    /\ own' = [own EXCEPT !.ended[i] = own.writes]
    /\ UNCHANGED <<now, notOwner>>

\* setState({}): the bodies that are running keep the object they were given
OwnedSetState ==
    /\ own.writes < MaxOwnerWrites
    /\ buf' = setState(buf, <<>>)
    /\ own' = [own EXCEPT !.writes = @ + 1,
                          !.detached = @ \cup {i \in 1..Len(txs) : txs[i].status = "running"}]
    /\ UNCHANGED <<now, txs, logs, notOwner>>

\* a write through getState() while no body is running
OwnedWrite ==
    /\ own.writes < MaxOwnerWrites
    /\ \A i \in 1..Len(txs) : txs[i].status # "running"
    /\ buf' = getStateWrite(buf)
    /\ own' = [own EXCEPT !.writes = @ + 1]
    /\ UNCHANGED <<now, txs, logs, notOwner>>

OwnedStarts == \E i \in 1..Len(txs) : OwnedStart(i)
OwnedFinishes == \E i \in 1..Len(txs) : OwnedFinish(i)

NextOwned ==
    \/ Tick
    \/ OwnedRun
    \/ OwnedStarts
    \/ OwnedFinishes
    \/ OwnedSetState
    \/ OwnedWrite

SpecOwned == InitOwned /\ [][NextOwned]_vars

\* ----------------------------- hooks run with one StableBuffer as commonBuffer

PersistenceConfigs ==
    [ loadBeforeHooks : BOOLEAN, storeAfterHooks : BOOLEAN,
      persistenceFunction : {"none", "returns", "throws"} ]

HookFns == {"returns", "throws"}

InitHooks ==
    /\ now = TickMs
    /\ \E timeoutMs \in {0, BufferTimeoutMs} :
         buf = NewStableBuffer([initialState |-> <<>>,
                                transactionTimeoutMs |-> timeoutMs,
                                logTransaction |-> "logs"])
    /\ txs = <<>>
    /\ logs = <<>>
    /\ co = NewCoordinators(<<"cache-manager", "cache-manager">>, "transaction")
    /\ own = NoOwner
    /\ IdleBreaker
    /\ IdleCache
    /\ IdleRequest
    /\ IdleCalls

notHooks == <<breakerVars, cacheVars, requestVars, ex, rp, sideVars, co, own>>

\* executeWithPersistence(hookFn, hookOptions, persistenceConfig, ..., buffer)
HookCall ==
    /\ buf.transactionSequence < MaxHookCalls
    /\ \E persistence \in PersistenceConfigs, hookFn \in HookFns :
         /\ txs' = Append(txs, newTransaction(buf, hookFn, now))
         /\ hk' = [hk EXCEPT !.calls =
                      Append(@, newHookCall(persistence, hookFn, Len(hk.steps)))]
    /\ buf' = bufferRun(buf)
    /\ UNCHANGED <<now, logs, notHooks>>

\* the task of call i is called, and with it the body
HookStart(i) ==
    /\ hk.calls[i].pc = "queued"
    /\ withBuffer(txs, txs[i].after)
    /\ buf' = taskStartBuffer(buf, txs[i], now)
    /\ txs' = [txs EXCEPT ![i] = taskStart(buf, @, now)]
    /\ hk' = [hk EXCEPT !.calls[i] = bodyBegin(@)]
    /\ UNCHANGED <<now, logs, notHooks>>

\* the load-before step of call i
HookLoad(i) ==
    /\ hk.calls[i].pc = "load"
    /\ buf' = loadBeforeWrites(buf, hk.calls[i], txs[i])
    /\ hk' = [hk EXCEPT !.calls[i] = loadBefore(@),
                        !.steps = Append(@, <<i, "load">>)]
    /\ UNCHANGED <<now, txs, logs, notHooks>>

\* the hook of call i
HookBody(i) ==
    /\ hk.calls[i].pc = "hook"
    /\ buf' = fnWrites(buf, txs[i])
    /\ hk' = [hk EXCEPT !.calls[i] = hookBody(@),
                        !.steps = Append(@, <<i, "hook">>)]
    /\ UNCHANGED <<now, txs, logs, notHooks>>

\* the store-after step of call i
HookStore(i) ==
    /\ hk.calls[i].pc = "store"
    /\ hk' = [hk EXCEPT !.calls[i] = storeAfter(@),
                        !.steps = Append(@, <<i, "store">>)]
    /\ UNCHANGED <<now, buf, txs, logs, notHooks>>

\* the body of call i has settled and its task runs to its end
HookSettle(i) ==
    /\ hk.calls[i].pc = "end"
    /\ txs' = [txs EXCEPT ![i] = taskSettle(buf, @, bodyOutcome(hk.calls[i]), now)]
    /\ logs' = Append(logs, logEntry(txs'[i]))
    /\ hk' = [hk EXCEPT !.calls[i].pc = "done"]
    /\ UNCHANGED <<now, buf, notHooks>>

\* the timer of wrapWithTimeout fires for call i
HookTimeout(i) ==
    /\ timeoutDue(buf, txs[i], now)
    /\ txs' = [txs EXCEPT ![i] = timeoutFires(buf, @)]
    /\ UNCHANGED <<now, buf, logs, hk, notHooks>>

NextHooks ==
    \/ Tick
    \/ HookCall
    \/ \E i \in 1..Len(txs) : HookStart(i)
    \/ \E i \in 1..Len(txs) : HookLoad(i)
    \/ \E i \in 1..Len(txs) : HookBody(i)
    \/ \E i \in 1..Len(txs) : HookStore(i)
    \/ \E i \in 1..Len(txs) : HookSettle(i)
    \/ \E i \in 1..Len(txs) : HookTimeout(i)

SpecHooks == InitHooks /\ [][NextHooks]_vars

\* ------------------------------------- execute(fn) called by concurrent callers

\* the callers admitted since the breaker became HALF_OPEN, after a call that
\* took the breaker from b to b1 and admitted `entered` callers
admittedAfter(b, b1, entered) ==
    IF b1.state # HALF_OPEN THEN 0
    ELSE IF b.state = HALF_OPEN THEN fl.admitted + entered
    ELSE entered

\* a caller calls execute(fn): canExecute() is awaited and, when it admits
\* the caller, fn() is called and awaited
FlightBegin ==
    /\ fl.running < MaxInFlight
    /\ cb.stateTransitions < MaxTransitions
    /\ LET e == executeBegin(cb, now)
       IN /\ cb' = e.cb
          /\ fl' = [ running |-> fl.running + (IF e.canExecute THEN 1 ELSE 0),
                     admitted |-> admittedAfter(cb, e.cb,
                                                IF e.canExecute THEN 1 ELSE 0) ]
          /\ Called("execute", e.canExecute)
    /\ Probed(0, 0)
    /\ UNCHANGED <<now, lastFailAt, cacheVars, bufferVars, requestVars, ex, rp, hk, dl, hp, ns>>

\* the fn() of one of the callers settles and its execute(fn) records it
FlightEnd ==
    /\ fl.running > 0
    /\ cb.totalRequests < MaxOutcomes /\ cb.stateTransitions < MaxTransitions
    /\ \E fn \in {"resolves", "throws"} :
         LET e == executeEnd(cb, executeBegin(cb, now).ex, fn, now)
         IN /\ cb' = e.cb
            /\ fl' = [ running |-> fl.running - 1,
                       admitted |-> admittedAfter(cb, e.cb, 0) ]
            /\ Called("execute:fn", fn = "resolves")
            /\ Probed(1, IF fn = "resolves" THEN 1 ELSE 0)
            /\ lastFailAt' = IF fn = "resolves" THEN lastFailAt ELSE now
    /\ UNCHANGED <<now, cacheVars, bufferVars, requestVars, ex, rp, hk, dl, hp, ns>>

NextFlight ==
    \/ Tick
    \/ FlightBegin
    \/ FlightEnd

SpecFlight == InitBreaker /\ [][NextFlight]_vars

\* ------------------------------------------------ the sleeps between attempts

\* the strategies of RETRY_STRATEGIES, and a value that is none of them
RetryStrategies == {"FIXED", "LINEAR", "EXPONENTIAL", "other"}
Waits == {0, 1, 3, 1000}
MaxAllowedWaits == {0, 2, 7, 4000, 60000}

InitSleeps ==
    /\ now = TickMs
    /\ IdleBreaker
    /\ IdleCache
    /\ IdleBuffer
    /\ IdleRequest
    /\ ex = NoExecute /\ rp = NoReplay /\ hk = NoHooks /\ fl = NoFlight /\ hp = 0 /\ ns = {}
    /\ \E retryStrategy \in RetryStrategies, wait \in Waits,
          maxAllowedWait \in MaxAllowedWaits :
         dl = [NoSleeps EXCEPT !.retryStrategy = retryStrategy, !.wait = wait,
                               !.maxAllowedWait = maxAllowedWait]

\* line 380: the sleep after the attempt that follows the ones slept after
Sleep ==
    /\ Len(dl.sleeps) < MaxSleeps
    /\ LET currentAttempt == Len(dl.sleeps) + 1
       IN dl' = [dl EXCEPT !.sleeps =
                    Append(@, delay(getNewDelayTime(dl.retryStrategy, dl.wait,
                                                    currentAttempt),
                                    dl.maxAllowedWait))]
    /\ UNCHANGED <<now, breakerVars, cacheVars, bufferVars, requestVars, ex, rp, hk, fl, hp, ns>>

NextSleeps == Sleep

SpecSleeps == InitSleeps /\ [][NextSleeps]_vars

\* ------------------------------------------------- the replay of logs

ReplayOptions ==
    [ dedupe : BOOLEAN, sort : BOOLEAN, activityFilter : {"none", "hook"},
      allowUnknownHooks : BOOLEAN ]

\* the logs a caller may hand to a replay: with or without a transactionId,
\* with a handler that returns, one that throws or none, of the activity the
\* filter lets through or of another one
ReplayLogs ==
    [ transactionId : {<<>>, <<"stable-buffer", 1, 1>>, <<"stable-buffer", 1, 2>>},
      queuedAt : {1}, startedAt : {1, 2}, finishedAt : {2},
      durationMs : {0}, queueWaitMs : {0}, success : {TRUE},
      stateBefore : {<<>>}, stateAfter : {<<>>},
      hookName : {"apply"}, activity : {"hook", "other"} ]
    \cup
    [ transactionId : {<<>>, <<"stable-buffer", 1, 1>>, <<"stable-buffer", 1, 2>>},
      queuedAt : {1}, startedAt : {1, 2}, finishedAt : {2},
      durationMs : {0}, queueWaitMs : {0}, success : {TRUE},
      stateBefore : {<<>>}, stateAfter : {<<>>},
      hookName : {"fail", "unknown"}, activity : {"hook"} ]

InitReplay ==
    /\ now = TickMs
    /\ IdleBreaker
    /\ IdleCache
    /\ IdleBuffer
    /\ IdleRequest
    /\ IdleCalls

\* replayStableBufferTransactions is called and runs up to its loop
ReplayCall ==
    /\ rp.pc = "idle"
    /\ \E options \in ReplayOptions, n \in 0..MaxLogs :
       \E inputLogs \in [1..n -> ReplayLogs] :
            rp' = newReplay(options, inputLogs, <<>>)
    /\ UNCHANGED <<now, breakerVars, cacheVars, bufferVars, requestVars, ex, hk, sideVars>>

\* the loop handles its next log
ReplayStep ==
    /\ rp.pc = "running"
    /\ rp' = replayStep(rp)
    /\ UNCHANGED <<now, breakerVars, cacheVars, bufferVars, requestVars, ex, hk, sideVars>>

NextReplay ==
    \/ ReplayCall
    \/ ReplayStep

SpecReplay == InitReplay /\ [][NextReplay]_vars

\* the logs recorded by a buffer are replayed on a fresh buffer with the same
\* initial state, in the order recorded or in the reverse order, with sort
RecordedCall ==
    /\ rp.pc = "idle"
    /\ \E count \in 1..MaxRecorded, gapMs \in {0, 1}, dedupe \in BOOLEAN,
          reversed \in BOOLEAN :
         LET fresh == NewStableBuffer([initialState |-> <<>>,
                                       transactionTimeoutMs |-> 0,
                                       logTransaction |-> "logs"])
             recorded == recordedRuns(fresh, <<>>, count, now, gapMs).recorded
             given == IF reversed
                      THEN [i \in 1..count |-> recorded[count + 1 - i]]
                      ELSE recorded
         IN rp' = newReplay([dedupe |-> dedupe, sort |-> TRUE,
                             activityFilter |-> "none",
                             allowUnknownHooks |-> FALSE], given, <<>>)
    /\ UNCHANGED <<now, breakerVars, cacheVars, bufferVars, requestVars, ex, hk, sideVars>>

NextRecorded ==
    \/ RecordedCall
    \/ ReplayStep

SpecRecorded == InitReplay /\ [][NextRecorded]_vars

\* ------------------------------------------------ stableRequest and its callers

\* what axios.request answers: a 200 response with valid or invalid data, a 500
\* error response, or a cancellation
Transports ==
    { [kind |-> "response", status |-> 200, data |-> d, code |-> Undefined,
       message |-> Undefined] : d \in {"valid", "invalid"} }
    \cup
    { [kind |-> "error", status |-> st, data |-> Undefined, code |-> "ERR_BAD_RESPONSE",
       message |-> "Request failed with status code " \o ToString(st)] : st \in {500} }
    \cup
    { [kind |-> "cancel", status |-> 0, data |-> Undefined, code |-> "ERR_CANCELED",
       message |-> "canceled"] }

FinalErrorAnalyzers == {"true", "false", "throws"}

RequestCacheConfig == [enabled |-> TRUE, ttl |-> 1000, maxSize |-> 1]

\* the breaker configuration of a behaviour, handed to the constructor of the
\* shared instance and to the calls that attach a configuration
RequestBreakerConfigs ==
    [ failureThresholdPercentage : {50},
      minimumRequests : {2},
      recoveryTimeoutMs : {1000},
      successThresholdPercentage : {50},
      halfOpenMaxRequests : {5},
      trackIndividualAttempts : BOOLEAN ]

\* the breaker of scenario 5: {50, 4, 1000} with the defaults of the constructor,
\* and the same one tracking attempts
GuardedBreakerConfigs ==
    [ failureThresholdPercentage : {50},
      minimumRequests : {4},
      recoveryTimeoutMs : {1000},
      successThresholdPercentage : {50},
      halfOpenMaxRequests : {5},
      trackIndividualAttempts : BOOLEAN ]

\* the pre-execution hook returns, or throws with and without
\* continueOnPreExecutionHookFailure
PreExecutions ==
    { [preExecutionHook |-> "returns", continueOnPreExecutionHookFailure |-> FALSE],
      [preExecutionHook |-> "throws", continueOnPreExecutionHookFailure |-> FALSE],
      [preExecutionHook |-> "throws", continueOnPreExecutionHookFailure |-> TRUE] }

\* trial mode is off, or on with a failure probability out of range
TrialModes ==
    { [enabled |-> FALSE, reqFailureProbability |-> 0],
      [enabled |-> TRUE, reqFailureProbability |-> 2] }

\* the circuitBreaker option: absent, the shared instance, or a configuration
Breakers(config) ==
    { [kind |-> k, config |-> config] : k \in {"none", "instance", "config"} }

RequestOptions(config) ==
    { [DefaultOptions EXCEPT
          !.reqData = [method |-> Undefined, path |-> "/a"],
          !.responseAnalyzer = o.responseAnalyzer,
          !.resReq = o.resReq,
          !.attempts = o.attempts,
          !.performAllAttempts = o.performAllAttempts,
          !.wait = TickMs,
          !.logAllErrors = TRUE,
          !.logAllSuccessfulAttempts = TRUE,
          !.throwOnFailedErrorAnalysis = o.throwOnFailedErrorAnalysis,
          !.cache = o.cache,
          !.circuitBreaker = o.circuitBreaker,
          !.preExecution = o.preExecution,
          !.trialMode = o.trialMode] :
      o \in [ responseAnalyzer : {"default", "validator"},
              resReq : BOOLEAN,
              attempts : 1..MaxAttempts,
              performAllAttempts : BOOLEAN,
              throwOnFailedErrorAnalysis : BOOLEAN,
              cache : {NoCache, RequestCacheConfig},
              circuitBreaker : Breakers(config),
              preExecution : PreExecutions,
              trialMode : TrialModes ] }

\* calls that attach the breaker and take the other options as they are by
\* default, but for the number of attempts
GuardedOptions(config) ==
    { [DefaultOptions EXCEPT
          !.reqData = [method |-> Undefined, path |-> "/a"],
          !.attempts = o.attempts,
          !.wait = TickMs,
          !.circuitBreaker = o.circuitBreaker] :
      o \in [ attempts : 1..MaxAttempts,
              circuitBreaker : Breakers(config) \ {[kind |-> "none", config |-> config]} ] }

InitRequests(configs) ==
    /\ now = TickMs
    /\ \E config \in configs : cb = NewCircuitBreaker(config, TickMs)
    /\ cbLast = NoCall @@ [pre |-> cb]
    /\ lastFailAt = 0
    /\ probe = [n |-> 0, ok |-> 0]
    /\ cm = NewCacheManager(RequestCacheConfig)
    /\ cmLast = NoCacheCall
    /\ recency = <<>>
    /\ IdleBuffer
    /\ IdleRequest
    /\ IdleCalls

InitRequest == InitRequests(RequestBreakerConfigs)

InitGuarded == InitRequests(GuardedBreakerConfigs)

\* the call that has just been entered, with the entry that the cache manager
\* then holds for its request (NoEntry: none, or an expired one)
Entered(r) ==
    [r EXCEPT !.cachedBefore =
        IF r.options.cache.enabled
        THEN cacheGetResult(cm, generateAxiosRequestConfig(r.options.reqData), now)
        ELSE NoEntry]

\* stableRequest(options) is called and runs up to its loop; the caller makes
\* its calls with the same options
BeginCall ==
    /\ rq.pc \in {"idle", "done"}
    /\ rq.calls < MaxCalls
    /\ IF rq.calls > 0 THEN rq' = Entered(newCall(rq, rq.options, now))
       ELSE \E options \in RequestOptions(cb.config) :
              rq' = Entered(newCall(rq, options, now))
    /\ UNCHANGED <<now, breakerVars, cacheVars, bufferVars, callVars>>

BeginGuardedCall ==
    /\ rq.pc \in {"idle", "done"}
    /\ rq.calls < MaxGuardedCalls
    /\ IF rq.calls > 0 THEN rq' = Entered(newCall(rq, rq.options, now))
       ELSE \E options \in GuardedOptions(cb.config) :
              rq' = Entered(newCall(rq, options, now))
    /\ UNCHANGED <<now, breakerVars, cacheVars, bufferVars, callVars>>

\* the attempts recorded on the shared breaker since it became HALF_OPEN,
\* after a step that took it from b to b1: canExecute() makes the transition
\* before the attempt of the step is made and recorded
halfOpenAttempts(b, b1, recorded) ==
    IF b1.state # HALF_OPEN THEN 0
    ELSE (IF b.state = HALF_OPEN THEN recorded ELSE 0)
         + (b1.totalAttempts - b.totalAttempts)

\* the world after a step of the call
Becomes(w) ==
    /\ rq' = w.rq
    /\ cb' = w.cb
    /\ cm' = w.cm
    /\ cbLast' = NoCall @@ [pre |-> w.cb]
    /\ hp' = halfOpenAttempts(cb, w.cb, hp)
    /\ UNCHANGED <<now, lastFailAt, probe, cmLast, recency, bufferVars, ex, rp, hk, dl, fl, ns>>

\* the call makes its next iteration, once the sleep before it is over
Attempt ==
    /\ rq.pc = "loop"
    /\ now >= rq.resumeAt
    /\ \E transport \in Transports :
       \E analyzerThrows \in IF transport.kind = "response" THEN BOOLEAN ELSE {FALSE} :
         Becomes(iteration([rq |-> rq, cb |-> cb, cm |-> cm], transport,
                           analyzerThrows, now))

\* the loop is over and the call terminates
Terminate ==
    /\ rq.pc = "ended"
    /\ \E finalErrorAnalyzer \in FinalErrorAnalyzers :
         Becomes(termination([rq |-> rq, cb |-> cb, cm |-> cm], finalErrorAnalyzer, now))

\* the outer catch block handles the error thrown in the try block; the
\* analyzer does with an error what it did with it before
Catch ==
    /\ rq.pc = "caught"
    /\ \E finalErrorAnalyzer \in FinalErrorAnalyzers :
         /\ rq.analyzed # <<>> => finalErrorAnalyzer = rq.analyzed[1]
         /\ Becomes(catchBlock([rq |-> rq, cb |-> cb, cm |-> cm], rq.caught,
                               finalErrorAnalyzer, now))

NextRequest ==
    \/ Tick
    \/ BeginCall
    \/ Attempt
    \/ Terminate
    \/ Catch

SpecRequest == InitRequest /\ [][NextRequest]_vars

NextGuarded ==
    \/ Tick
    \/ BeginGuardedCall
    \/ Attempt
    \/ Terminate
    \/ Catch

SpecGuarded == InitGuarded /\ [][NextGuarded]_vars

\* a breaker that tracks the attempts, opens on the first failure and probes
\* with one or two requests
ProbeBreakerConfigs ==
    [ failureThresholdPercentage : {50},
      minimumRequests : {1},
      recoveryTimeoutMs : {1000},
      successThresholdPercentage : {50},
      halfOpenMaxRequests : {1, 2},
      trackIndividualAttempts : {TRUE} ]

InitProbe == InitRequests(ProbeBreakerConfigs)

SpecProbe == InitProbe /\ [][NextGuarded]_vars

\* ------------------------------------------------------ claims: the breaker

\* the triplet that trackIndividualAttempts selects
ActiveTotal(b) ==
    IF b.config.trackIndividualAttempts THEN b.totalAttempts ELSE b.totalRequests

ActiveFailed(b) ==
    IF b.config.trackIndividualAttempts THEN b.failedAttempts ELSE b.failedRequests

ThresholdReached(b) ==
    /\ ActiveTotal(b) >= b.config.minimumRequests
    /\ ActiveFailed(b) * 100 >= b.config.failureThresholdPercentage * ActiveTotal(b)

\* C5: a breaker that started CLOSED and has only recorded outcomes since (it
\* never went through a recovery) is OPEN whenever its active triplet has
\* total >= minimumRequests and failed/total * 100 >= failureThresholdPercentage.
C5_OpenWhenThresholdReached ==
    (cb.halfOpenCount = 0 /\ ThresholdReached(cb)) => cb.state = OPEN

\* C6 (as claimed): a canExecute() on an OPEN breaker returns true exactly when
\* it is made at or after (the time the breaker became OPEN) + recoveryTimeoutMs,
\* and then the breaker is HALF_OPEN.
C6_RecoveryFromOpenTime ==
    (cbLast.op = "canExecute" /\ cbLast.pre.state = OPEN) =>
        /\ cbLast.ret =
             (cbLast.at >= cbLast.pre.lastOpenTime + cb.config.recoveryTimeoutMs)
        /\ cb.state = IF cbLast.ret THEN HALF_OPEN ELSE OPEN

\* C6 (amended): a canExecute() on an OPEN breaker returns true exactly when it
\* is made at or after (the time of the most recent failure recorded on the
\* breaker, also one recorded while OPEN) + recoveryTimeoutMs; it then leaves
\* the breaker HALF_OPEN, and otherwise leaves it OPEN.
C6_RecoveryFromLastFailure ==
    (cbLast.op = "canExecute" /\ cbLast.pre.state = OPEN) =>
        /\ cbLast.ret = (cbLast.at >= lastFailAt + cb.config.recoveryTimeoutMs)
        /\ cb.state = IF cbLast.ret THEN HALF_OPEN ELSE OPEN

\* C6 witness: a breaker that recorded a failure while OPEN is admitted to
\* HALF_OPEN by a canExecute() made recoveryTimeoutMs after that failure.
C6_Witness ==
    /\ cbLast.op = "canExecute" /\ cbLast.pre.state = OPEN
    /\ cbLast.pre.lastFailureTime > cbLast.pre.lastOpenTime
    /\ cbLast.ret /\ cb.state = HALF_OPEN

\* C7: a call made on a HALF_OPEN breaker (canExecute or any record call)
\* leaves it HALF_OPEN with its recovery counts unchanged, unless the call is
\* the recordSuccess/recordFailure that records outcome number
\* halfOpenMaxRequests of the probe; that call closes the breaker and counts
\* one successful recovery if successes/outcomes * 100 >=
\* successThresholdPercentage, and otherwise opens it and counts one failed
\* recovery.
C7_HalfOpenEvaluation ==
    /\ cb.state = HALF_OPEN => probe.n < cb.config.halfOpenMaxRequests
    /\ (cbLast.pre.state = HALF_OPEN /\ cbLast.op \notin {"none", "reset"}) =>
         LET pre == cbLast.pre
             deciding == /\ cbLast.op \in {"recordSuccess", "recordFailure"}
                         /\ probe.n = cb.config.halfOpenMaxRequests
         IN IF ~deciding
            THEN /\ cb.state = HALF_OPEN
                 /\ cb.successfulRecoveries = pre.successfulRecoveries
                 /\ cb.failedRecoveries = pre.failedRecoveries
            ELSE IF probe.ok * 100 >= cb.config.successThresholdPercentage * probe.n
                 THEN /\ cb.state = CLOSED
                      /\ cb.successfulRecoveries = pre.successfulRecoveries + 1
                      /\ cb.failedRecoveries = pre.failedRecoveries
                 ELSE /\ cb.state = OPEN
                      /\ cb.successfulRecoveries = pre.successfulRecoveries
                      /\ cb.failedRecoveries = pre.failedRecoveries + 1

\* C7 witness: the second outcome of a two-outcome probe, one success and one
\* failure, closed the breaker.
C7_Witness ==
    /\ cbLast.pre.state = HALF_OPEN /\ cbLast.op \in {"recordSuccess", "recordFailure"}
    /\ cb.config.halfOpenMaxRequests = 2 /\ probe = [n |-> 2, ok |-> 1]
    /\ cb.state = CLOSED /\ cb.successfulRecoveries = 1

\* -------------------------------------------------------- claims: the cache

\* C9: the cache map never holds more than maxSize entries.
C9_SizeAtMostMaxSize == Cardinality(DOMAIN cm.cache) <= cm.config.maxSize

\* C10: a set() that removes a key from the cache removes the least recently
\* used of the keys that were stored (a key is used by the set() that stores it
\* and by a get() hit).
C10_EvictsLeastRecentlyUsed ==
    (cmLast.op = "set" /\ cmLast.removed # {}) => cmLast.removed = cmLast.lru

\* the key of the last call is gone from the map and from the access order
KeyDropped ==
    /\ cmLast.key \notin DOMAIN cm.cache
    /\ \A i \in 1..Len(cm.accessOrder) : cm.accessOrder[i] # cmLast.key

\* the last call was a get() that found an entry stored under its key
ReadStored == cmLast.op = "get" /\ cmLast.had # NoEntry

C1_Serial ==
    \A i, j \in 1..Len(txs) :
        (i < j /\ txs[j].status # "queued") => settled(txs[i])

\* C1: the bodies handed to run() are executed one at a time in the order of
\* the calls: no body starts before every body enqueued earlier has settled,
\* and every enqueued body is started, whether or not earlier bodies throw
C1_FifoOneAtATime ==
    /\ []C1_Serial
    /\ []<>(\A i \in 1..Len(txs) : txs[i].status # "queued")

\* a body that was enqueued while an earlier body was running has run after that
\* body threw
C1_Witness ==
    /\ Len(txs) >= 2
    /\ txs[1].fn = "throws" /\ txs[1].status = "rejected"
    /\ txs[2].queuedAt < txs[1].finishedAt
    /\ txs[1].startAt < txs[2].queuedAt
    /\ settled(txs[2])

\* the promise run() returned for this transaction was rejected by its timer
TimedOut(tx) == tx.caller = timeoutError(buf)

\* how many times the body of transaction i has written to the state
Writes(i) == Cardinality({n \in 1..Len(buf.state) : buf.state[n] = i})

\* the timer rejects only calls whose result had not arrived when the budget
\* was over, with its error, and no call is left pending after the budget
C14_RejectsAfterBudget ==
    \A i \in 1..Len(txs) :
        LET due == txs[i].queuedAt + buf.transactionTimeoutMs
        IN /\ TimedOut(txs[i]) =>
                /\ buf.transactionTimeoutMs > 0 /\ now >= due
                /\ settled(txs[i]) => txs[i].finishedAt >= due
           /\ (buf.transactionTimeoutMs > 0 /\ txs[i].caller = "pending") => now <= due
           /\ (buf.transactionTimeoutMs > 0 /\ txs[i].caller \in {"resolved", "rejected"}) =>
                txs[i].finishedAt <= due

\* the body of a call that timed out is not aborted: it settles as its body
\* does, its write is in the state exactly once when it has, and no body
\* enqueued after it has started before
C14_BodyNotAborted ==
    \A i \in 1..Len(txs) :
        TimedOut(txs[i]) =>
            /\ txs[i].status = "resolved" => txs[i].fn = "returns"
            /\ txs[i].status = "rejected" => txs[i].fn = "throws"
            /\ Writes(i) = IF settled(txs[i]) THEN 1 ELSE 0
            /\ \A j \in 1..Len(txs) :
                  (i < j /\ txs[j].status # "queued") =>
                      settled(txs[i]) /\ txs[j].startAt >= txs[i].finishedAt

\* C14: with transactionTimeoutMs > 0, a run() call whose result has not
\* arrived within the budget rejects with 'StableBuffer transaction timed out
\* after <n>ms', but its body is not aborted: the body still runs to
\* completion exactly once, its state changes are kept, and every transaction
\* enqueued after it starts only after that body has finished.
C14_TimeoutLeavesBodyRunning ==
    /\ [](C14_RejectsAfterBudget /\ C14_BodyNotAborted)
    /\ []<>(\A i \in 1..Len(txs) : TimedOut(txs[i]) => settled(txs[i]))

\* a call has timed out while its body was running, the body has finished
\* later and left its write, and a transaction enqueued meanwhile has started
C14_Witness ==
    /\ Len(txs) >= 2
    /\ TimedOut(txs[1]) /\ buf.transactionTimeoutMs = BufferTimeoutMs
    /\ settled(txs[1]) /\ Writes(1) = 1
    /\ txs[1].startAt < txs[1].queuedAt + buf.transactionTimeoutMs
    /\ txs[1].finishedAt > txs[1].queuedAt + buf.transactionTimeoutMs
    /\ txs[2].queuedAt < txs[1].finishedAt
    /\ txs[2].status # "queued"

\* the transactions that have settled under a logger that throws have settled
\* as their bodies did, the callers not rejected by the timer have their
\* body's outcome, every write is in the state once, and the logger was
\* called for each of them
C30_OutcomeOfBody ==
    buf.logTransaction = "throws" =>
        /\ \A i \in 1..Len(txs) :
              settled(txs[i]) =>
                  /\ txs[i].status = IF txs[i].fn = "returns" THEN "resolved"
                                     ELSE "rejected"
                  /\ txs[i].caller = txs[i].status \/ TimedOut(txs[i])
                  /\ buf.transactionTimeoutMs = 0 => txs[i].caller = txs[i].status
                  /\ Writes(i) = 1
                  /\ txs[i].stateAfter[Len(txs[i].stateAfter)] = i
        /\ Len(logs) = Cardinality({i \in 1..Len(txs) : settled(txs[i])})

\* C30: when the logTransaction callback throws or rejects, run() still
\* resolves with the value of the body (or rejects with the body's own
\* error), the state changes of the body are kept, and the transactions
\* after it run normally.
C30_LoggerErrorsSwallowed ==
    /\ [](C30_OutcomeOfBody /\ C1_Serial)
    /\ []<>(buf.logTransaction = "throws" => \A i \in 1..Len(txs) : settled(txs[i]))

\* under a logger that throws, a body has returned and its caller has its
\* value, and a body enqueued meanwhile has run after it and thrown
C30_Witness ==
    /\ buf.logTransaction = "throws" /\ buf.transactionTimeoutMs = 0
    /\ Len(txs) >= 2 /\ Len(logs) = 2
    /\ txs[1].fn = "returns" /\ txs[1].caller = "resolved"
    /\ txs[2].queuedAt < txs[1].finishedAt
    /\ txs[2].fn = "throws" /\ txs[2].caller = "rejected"
    /\ buf.state = <<1, 2>>

\* the stateBefore logged for each transaction but the first is the stateAfter
\* logged for the transaction enqueued just before it
C13_Chained ==
    \A n \in 1..Len(logs) :
        n > 1 => logs[n].stateBefore = logs[n - 1].stateAfter

\* C13 as stated: for T2 the next transaction enqueued after T1, the stateBefore
\* logged for T2 equals the stateAfter logged for T1, in every execution built
\* from run/update/transaction, setState and writes through the getState()
\* reference made while no body is running.
C13_StateBeforeIsPreviousStateAfter == C13_Chained

\* C13 amended: the stateBefore logged for T2 equals the stateAfter logged for
\* T1 when the owner neither called setState() nor wrote through getState()
\* between the end of T1 and the start of T2; the logs are in the order of the
\* run() calls.
C13_StateBeforeIsPreviousStateAfterUnlessOwnerWrote ==
    \A n \in 1..Len(logs) :
        /\ logs[n].transactionId = txs[n].transactionId
        /\ (n > 1 /\ own.began[n] = own.ended[n - 1]) =>
               logs[n].stateBefore = logs[n - 1].stateAfter

\* two transactions have been logged, the first has written to the state, the
\* owner has replaced the state before the first began, and not written since
C13_Witness ==
    /\ Len(logs) >= 2
    /\ own.writes = 1 /\ own.began[1] = 1
    /\ logs[1].stateAfter # logs[1].stateBefore
    /\ logs[2].stateBefore = logs[1].stateAfter

\* --------------------------------------- claims: the persistence coordinator

\* a body that found its operationId recorded returned {skipped: true} and
\* called no hook
SkipsRecorded ==
    \A i \in 1..Len(txs) :
        (txs[i].status # "queued" /\ co.found[i]) =>
            /\ co.results[i] = "skipped"
            /\ \A h \in 1..Len(co.hooks) : co.hooks[h].tx # i
            /\ txs[i].status \in {"running", "resolved"}

Continues(r, a) ==
    \/ ~a.ok /\ a.isRetryable
    \/ a.ok /\ a.verdict \in {"rejected", "threw"}
    \/ r.options.performAllAttempts

\* the loop of the call is over
LoopOver(r) == r.pc \in {"ended", "caught", "done"}

\* the loop of the call is over and its own condition ended it: no cache hit
\* returned from it and no CircuitBreakerOpenError was thrown in it
LoopEnded(r) == r.pc = "ended" \/ (r.pc \in {"caught", "done"} /\ r.endedBy = "loop")

\* C2 as stated: at most N attempts are made, and attempt i+1 follows attempt
\* i < N if and only if attempt i failed with a retryable error, or was ok and
\* rejected by the analyzer, or performAllAttempts is set
C2_NextAttemptIff ==
    /\ Len(rq.log) <= rq.maxAttempts
    /\ \A i \in 1..Len(rq.log) :
          i < rq.maxAttempts =>
             /\ (i < Len(rq.log)) => Continues(rq, rq.log[i])
             /\ (i = Len(rq.log) /\ LoopOver(rq)) => ~Continues(rq, rq.log[i])

\* C2 amended: at most N attempts are made; attempt i+1 follows attempt i < N
\* only if attempt i failed with a retryable error, or was ok and rejected by
\* the analyzer, or performAllAttempts is set; and it does follow then, unless
\* attempt i was served from the cache or the circuit breaker threw
\* CircuitBreakerOpenError
C2_NextAttemptIffUnlessShortCircuit ==
    /\ Len(rq.log) <= rq.maxAttempts
    /\ \A i \in 1..Len(rq.log) :
          i < rq.maxAttempts =>
             /\ (i < Len(rq.log)) => Continues(rq, rq.log[i])
             /\ (i = Len(rq.log) /\ LoopEnded(rq)) => ~Continues(rq, rq.log[i])

\* a call without performAllAttempts made a second attempt after the analyzer
\* threw on the first response, and another one stopped at a failure that is
\* not retryable with an attempt left
C2_Witness ==
    /\ LoopEnded(rq) /\ rq.pc = "done"
    /\ ~rq.options.performAllAttempts
    /\ rq.maxAttempts = 2
    /\ \/ /\ Len(rq.log) = 2
          /\ rq.log[1].verdict = "threw"
          /\ rq.log[2].verdict = "accepted"
       \/ /\ Len(rq.log) = 1
          /\ ~rq.log[1].ok /\ ~rq.log[1].isRetryable

Accepted(r) == {i \in 1..Len(r.log) : r.log[i].verdict = "accepted"}

LastAccepted(r) == CHOOSE i \in Accepted(r) : \A j \in Accepted(r) : j <= i

LastAttempt(r) == r.log[Len(r.log)]

\* the result is success=true with the payload of attempt a (true when the
\* caller does not ask for the payload)
Succeeds(r, a) ==
    /\ r.result.kind = "returned"
    /\ r.result.success
    /\ r.result.data = IF r.options.resReq THEN a.data ELSE "true"

\* the result is success=false with the error string of the last attempt
Fails(r) ==
    /\ r.result.kind = "returned"
    /\ ~r.result.success
    /\ r.result.error = IF LastAttempt(r).error # Undefined THEN LastAttempt(r).error
                        ELSE "Request failed"

\* C3 as stated: when the loop has ended, a call with performAllAttempts and an
\* accepted attempt returns success=true with the payload of the last accepted
\* attempt, in every configuration; another call returns success=true if its
\* last attempt was accepted and success=false with the last error if not
C3_TerminationResult ==
    (rq.pc = "done" /\ Len(rq.log) > 0) =>
        IF rq.options.performAllAttempts /\ Accepted(rq) # {}
        THEN Succeeds(rq, rq.log[LastAccepted(rq)])
        ELSE IF LastAttempt(rq).verdict = "accepted"
        THEN Succeeds(rq, LastAttempt(rq))
        ELSE Fails(rq)

\* C3 amended: the same when the loop has ended by its own condition (no cache
\* hit returned from it and the circuit breaker threw no CircuitBreakerOpenError),
\* but that a failing call with throwOnFailedErrorAnalysis throws instead of
\* returning when finalErrorAnalyzer has not returned true
C3_TerminationResultOfLoop ==
    (rq.pc = "done" /\ rq.endedBy = "loop") =>
        IF rq.options.performAllAttempts /\ Accepted(rq) # {}
        THEN Succeeds(rq, rq.log[LastAccepted(rq)])
        ELSE IF LastAttempt(rq).verdict = "accepted"
        THEN Succeeds(rq, LastAttempt(rq))
        ELSE IF rq.options.throwOnFailedErrorAnalysis /\ ~rq.handled
        THEN rq.result.kind = "threw"
        ELSE Fails(rq)

\* a call with performAllAttempts whose first attempt was accepted and whose
\* second one failed has returned
C3_Witness ==
    /\ rq.pc = "done" /\ rq.endedBy = "loop"
    /\ rq.options.performAllAttempts /\ rq.options.resReq
    /\ Len(rq.log) = 2
    /\ rq.log[1].verdict = "accepted"
    /\ ~rq.log[2].ok

\* C4: a call that returns success=true reports a response that its
\* responseAnalyzer accepts
C4_SuccessIsAccepted ==
    (rq.pc = "done" /\ rq.result.kind = "returned" /\ rq.result.success) =>
        accepts(rq.options.responseAnalyzer, rq.reported)

\* C8: with the breaker {50, 4, 1000} attached to each call, a call that follows
\* four consecutive calls answered by 500 responses and starts within the
\* recovery timeout of the last of them ends with the error of a refused
\* admission and makes no transport call
C8_FifthCallBlocked ==
    ( /\ rq.pc = "done"
      /\ ~cb.config.trackIndividualAttempts
      /\ rq.streakBefore >= 4
      /\ rq.requestStartTime < rq.streakAtBefore + cb.config.recoveryTimeoutMs )
    => /\ rq.result.error = blockedMessage(OPEN, 1)
       /\ rq.transportCalls = 0

\* the call is over and has returned success=true
Succeeded(r) == r.pc = "done" /\ r.result.kind = "returned" /\ r.result.success

\* the call is over and has returned success=false or thrown
Failed(r) == r.pc = "done" /\ ~Succeeded(r)

\* C15: finalErrorAnalyzer is invoked exactly once in every call that ends in
\* failure after the attempt loop, for either value of
\* throwOnFailedErrorAnalysis and either verdict of the analyzer, and never in
\* a call that returns success=true.
C15_FinalErrorAnalyzerOnce ==
    /\ Succeeded(rq) => Len(rq.analyzed) = 0
    /\ (Failed(rq) /\ rq.endedBy = "loop") => Len(rq.analyzed) = 1

\* the pre-execution hook of the call failed and the call stopped there
PreExecutionStopped(r) ==
    /\ r.endedBy = "preExecution"
    /\ r.options.preExecution.preExecutionHook = "throws"
    /\ ~r.options.preExecution.continueOnPreExecutionHookFailure

\* C16: stableRequest throws to its caller only when
\* throwOnFailedErrorAnalysis is set and either the final failure is unhandled
\* or the pre-execution hook failed without
\* continueOnPreExecutionHookFailure; without throwOnFailedErrorAnalysis the
\* failures of the transport, of the hooks, of the breaker and of the
\* trial-mode validation end in a returned result with success=false.
C16_ThrowsOnlyWhenAsked ==
    rq.pc = "done" =>
        /\ rq.result.kind \in {"returned", "threw"}
        /\ rq.result.kind = "threw" =>
              /\ rq.options.throwOnFailedErrorAnalysis
              /\ PreExecutionStopped(rq) \/ (rq.endedBy # "preExecution" /\ ~rq.handled)
        /\ ~rq.options.throwOnFailedErrorAnalysis =>
              /\ rq.result.kind = "returned"
              /\ rq.endedBy \in {"breaker", "trialMode", "preExecution"} =>
                    ~rq.result.success /\ "error" \in rq.result.has
              /\ ( /\ rq.endedBy = "loop"
                   /\ LastAttempt(rq).verdict # "accepted"
                   /\ ~(rq.options.performAllAttempts /\ Accepted(rq) # {}) ) =>
                    ~rq.result.success /\ "error" \in rq.result.has

\* a call without throwOnFailedErrorAnalysis that the breaker refused and
\* whose finalErrorAnalyzer threw has returned success=false
C16_Witness ==
    /\ rq.pc = "done" /\ rq.endedBy = "breaker"
    /\ ~rq.options.throwOnFailedErrorAnalysis
    /\ rq.analyzed = <<"throws">>
    /\ rq.result.kind = "returned" /\ ~rq.result.success

\* the attempt was cancelled
Cancelled(a) == a.error = "stable-request: Request was cancelled."

\* C17: an attempt during which the cancellation token fires is reported as a
\* failure that is not retryable, and it is the last attempt of the call, in
\* every configuration.
C17_CancellationEndsLoop ==
    \A i \in 1..Len(rq.log) :
        Cancelled(rq.log[i]) =>
            /\ ~rq.log[i].ok /\ ~rq.log[i].isRetryable
            /\ i = Len(rq.log)
            /\ rq.pc # "loop"

\* the call was over before its first lookup: the pre-execution hook stopped
\* it, the trial-mode validation failed or the breaker refused the attempt
StoppedBeforeLookup(r) == r.endedBy \in {"preExecution", "trialMode", "breaker"}

\* the call found a live entry for its request and what it returned is the hit
ServedFromCache(r) ==
    /\ Succeeded(r)
    /\ r.result.data = IF r.options.resReq THEN r.cachedBefore.data ELSE "true"
    /\ r.transportCalls = 0
    /\ Len(r.log) = 1
    /\ r.log[1].fromCache /\ r.log[1].verdict = "none"

\* the later call of a caller is over, and the entry stored for its request
\* when it was entered has not expired since
LaterCallOnLiveEntry(r) ==
    /\ r.pc = "done" /\ r.calls >= 2
    /\ r.cachedBefore # NoEntry /\ now <= r.cachedBefore.expiresAt

\* C18 as stated: with the cache enabled, a call that finds the response of an
\* earlier identical call stored and not expired returns success=true with the
\* cached data (true when the caller does not ask for the payload) on its
\* first attempt, without a transport call, without the responseAnalyzer and
\* without a retry.
C18_CacheHitShortCircuits == LaterCallOnLiveEntry(rq) => ServedFromCache(rq)

\* C18: with the cache enabled, a call that finds the response of an earlier
\* identical call stored and not expired, and that reaches its first lookup
\* (its pre-execution hook and its trial-mode validation let it through and
\* the breaker admits its first attempt), returns success=true with the
\* cached data (true when the caller does not ask for the payload) on its
\* first attempt, without a transport call, without the responseAnalyzer and
\* without a retry.
C18_CacheHitShortCircuitsWhenAdmitted ==
    (LaterCallOnLiveEntry(rq) /\ ~StoppedBeforeLookup(rq)) => ServedFromCache(rq)

\* the second call of a caller has been served from the cache
C18_Witness ==
    /\ LaterCallOnLiveEntry(rq) /\ rq.calls = 2
    /\ rq.options.resReq /\ rq.options.responseAnalyzer = "validator"
    /\ rq.endedBy = "cache" /\ rq.transportCalls = 0
    /\ rq.result.data = "valid"

\* the attempts of the call that were not accepted and not served from the cache
NotAccepted(r) ==
    {i \in 1..Len(r.log) : ~r.log[i].fromCache /\ r.log[i].verdict # "accepted"}

\* the attempts before attempt i that were not accepted
NotAcceptedBefore(r, i) == {j \in NotAccepted(r) : j < i}

\* C19: with logAllErrors, every attempt that fails at the transport adds one
\* errorLogs entry of type HTTP_ERROR with its statusCode and isRetryable,
\* every ok attempt that the analyzer rejects adds one of type INVALID_CONTENT,
\* accepted attempts add none, and the entries are in attempt order and
\* labelled i/N.
C19_ErrorLogPerFailedAttempt ==
    (rq.options.logAllErrors /\ rq.pc \in {"ended", "caught", "done"}) =>
        /\ Len(rq.errorLogs) = Cardinality(NotAccepted(rq))
        /\ \A i \in NotAccepted(rq) :
              LET n == Cardinality(NotAcceptedBefore(rq, i)) + 1
              IN n <= Len(rq.errorLogs) =>
                   /\ rq.errorLogs[n].attempt = attemptLabel(i, rq.maxAttempts)
                   /\ rq.errorLogs[n].type = IF rq.log[i].ok THEN "INVALID_CONTENT"
                                             ELSE "HTTP_ERROR"
                   /\ rq.errorLogs[n].statusCode = rq.log[i].statusCode
                   /\ rq.errorLogs[n].isRetryable = rq.log[i].isRetryable

\* C20: every result returned carries metrics; errorLogs is present iff an
\* error entry was recorded, successfulAttempts iff a success entry was
\* recorded, data iff success=true, and data is then the payload when resReq
\* is set and true when it is not.
C20_ResultShape ==
    (rq.pc = "done" /\ rq.result.kind = "returned") =>
        /\ "metrics" \in rq.result.has
        /\ "errorLogs" \in rq.result.has <=> Len(rq.errorLogs) > 0
        /\ "successfulAttempts" \in rq.result.has <=> Len(rq.successfulAttemptsList) > 0
        /\ "data" \in rq.result.has <=> rq.result.success
        /\ rq.result.success =>
              IF rq.options.resReq THEN rq.result.data \in {"valid", "invalid"}
              ELSE rq.result.data = "true"

\* a call with two attempts has returned success=true with the payload, an
\* error entry and a success entry
C20_Witness ==
    /\ rq.pc = "done" /\ rq.endedBy = "loop"
    /\ rq.options.resReq
    /\ rq.result.has = {"success", "data", "errorLogs", "successfulAttempts", "metrics"}
    /\ rq.result.data = "valid"
    /\ Len(rq.result.errorLogs) = 1 /\ Len(rq.result.successfulAttempts) = 1

\* -------------------------------------------- claims: the breaker's record

\* C26: in every reachable breaker state failed + succeeded <= total holds for
\* the request-level, the attempt-level and the half-open triplet, and a
\* breaker that is OPEN has lastOpenTime > 0.
C26_TripletsAndOpenTime ==
    /\ cb.failedRequests + cb.successfulRequests <= cb.totalRequests
    /\ cb.failedAttempts + cb.successfulAttempts <= cb.totalAttempts
    /\ cb.halfOpenFailures + cb.halfOpenSuccesses <= cb.halfOpenRequests
    /\ cb.state = OPEN => cb.lastOpenTime > 0

\* a probe has failed: the breaker is OPEN again after outcomes of both kinds
\* were recorded at both levels
C26_Witness ==
    /\ cb.state = OPEN /\ cb.failedRecoveries > 0
    /\ cb.failedRequests > 0 /\ cb.successfulRequests > 0
    /\ cb.totalAttempts > 0

\* C28: execute(fn) that is denied admission throws CircuitBreakerOpenError
\* without calling fn and without changing a counter; otherwise it calls fn
\* exactly once, records one request-level success when fn resolves and one
\* request-level failure when fn throws, and rethrows the error of fn
\* unchanged.
C28_ExecuteRecordsOnce ==
    /\ ex.fnCalls <= 1
    /\ ex.pc = "running" => ex.fnCalls = 1
    /\ cbLast.op = "execute" =>
          IF cbLast.ret
          THEN ex.pc = "running" /\ ex.fnCalls = 1
          ELSE /\ ex.pc = "done" /\ ex.fnCalls = 0
               /\ ex.outcome = "rejected"
               /\ ex.value = blockedError(cb.state)
               /\ cb = cbLast.pre
    /\ cbLast.op = "execute:fn" =>
          /\ ex.pc = "done" /\ ex.fnCalls = 1
          /\ IF cbLast.ret
             THEN /\ ex.outcome = "resolved" /\ ex.value = "result"
                  /\ cb = recordSuccess(cbLast.pre, cbLast.at)
                  /\ cb.failedRequests \in {0, cbLast.pre.failedRequests}
             ELSE /\ ex.outcome = "rejected" /\ ex.value = "fn error"
                  /\ cb = recordFailure(cbLast.pre, cbLast.at)
                  /\ cb.successfulRequests \in {0, cbLast.pre.successfulRequests}

\* an execute admitted by the recovery has just rethrown the error of fn and
\* its failure has opened the breaker again
C28_Witness ==
    /\ cbLast.op = "execute:fn" /\ ~cbLast.ret
    /\ cbLast.pre.state = HALF_OPEN /\ cb.state = OPEN
    /\ ex.value = "fn error"

\* the call that has just returned recorded an outcome in the active triplet
\* of a CLOSED breaker, brought its total to 10 x minimumRequests and left
\* the breaker CLOSED
FilledWindow(ops) ==
    /\ cbLast.op \in ops
    /\ cbLast.op \in IF cb.config.trackIndividualAttempts
                     THEN {"recordAttemptSuccess", "recordAttemptFailure"}
                     ELSE {"recordSuccess", "recordFailure"}
    /\ cbLast.pre.state = CLOSED /\ cb.state = CLOSED
    /\ ActiveTotal(cbLast.pre) + 1 = 10 * cb.config.minimumRequests

\* the request-level and the attempt-level counters are zero
CountersZero(b) ==
    /\ b.totalRequests = 0 /\ b.failedRequests = 0 /\ b.successfulRequests = 0
    /\ b.totalAttempts = 0 /\ b.failedAttempts = 0 /\ b.successfulAttempts = 0

\* C27: while the breaker is CLOSED, whenever a recorded outcome (a success or
\* a failure) brings the active triplet's total to 10 x minimumRequests
\* without opening the breaker, all request-level and attempt-level counters
\* are zero when that record call returns.
C27_WindowResets ==
    FilledWindow({"recordSuccess", "recordFailure",
                  "recordAttemptSuccess", "recordAttemptFailure"}) => CountersZero(cb)

\* -------------------------------------------- claims: the stored entries

\* C29: every entry that set() stores has expiresAt > timestamp, for every
\* ttl of the configuration and every combination of Cache-Control and
\* Expires response headers.
C29_ExpiresAfterTimestamp ==
    \A key \in DOMAIN cm.cache : cm.cache[key].expiresAt > cm.cache[key].timestamp

\* ------------------------------------------------- claims: the hooks

\* C21: the hook invocations made with one StableBuffer run one at a time: the
\* load-before, hook and store-after steps of one invocation are taken with no
\* step of another invocation between them, in the order of the calls, and no
\* invocation is in its body while another one is.
C21_HookStepsNeverInterleave ==
    /\ \A p, q, r \in 1..Len(hk.steps) :
          (p < q /\ q < r /\ hk.steps[p][1] = hk.steps[r][1]) =>
              hk.steps[q][1] = hk.steps[p][1]
    /\ \A p, q \in 1..Len(hk.steps) : p < q => hk.steps[p][1] <= hk.steps[q][1]
    /\ \A i, j \in 1..Len(hk.calls) :
          (i # j /\ hk.calls[i].pc \in {"load", "hook", "store", "end"}) =>
              hk.calls[j].pc \in {"queued", "done"}

\* a call made while the body of another call was between two of its steps has
\* taken its three steps after the three steps of that call
C21_Witness ==
    /\ Len(hk.calls) = 2
    /\ hk.calls[2].seen \in {1, 2}
    /\ hk.steps = << <<1, "load">>, <<1, "hook">>, <<1, "store">>,
                     <<2, "load">>, <<2, "hook">>, <<2, "store">> >>

\* C22: what the load-before step or the store-after step throws is
\* swallowed: after a failed load the hook is still invoked, and after a
\* failed store the call still resolves with the value of the hook; what the
\* hook throws rejects the call, and the store-after step is then not taken.
C22_PersistenceErrorsSwallowed ==
    \A i \in 1..Len(hk.calls) :
        LET call == hk.calls[i]
        IN /\ (call.loaded = "failed" /\ call.pc \in {"store", "end", "done"}) =>
                 call.hookInvoked
           /\ (call.pc = "done" /\ call.hookFn = "returns") =>
                 /\ txs[i].status = "resolved" /\ call.result = "value"
                 /\ txs[i].caller \in {"resolved", timeoutError(buf)}
                 /\ storesAfter(call) => call.stored # "no"
                 /\ loadsBefore(call) => call.loaded # "no"
           /\ (call.hookInvoked /\ call.hookFn = "throws") =>
                 /\ call.stored = "no" /\ call.pc \in {"end", "done"}
                 /\ \A n \in 1..Len(hk.steps) : hk.steps[n] # <<i, "store">>
                 /\ call.pc = "done" =>
                       /\ txs[i].status = "rejected"
                       /\ txs[i].caller \in {"rejected", timeoutError(buf)}

\* a call whose load and store both failed has resolved with the value of its
\* hook, and a call with a working store whose hook threw has rejected with
\* nothing stored
C22_Witness ==
    /\ Len(hk.calls) = 2
    /\ hk.calls[1].loaded = "failed" /\ hk.calls[1].stored = "failed"
    /\ hk.calls[1].pc = "done" /\ txs[1].caller = "resolved"
    /\ hk.calls[2].persistence.storeAfterHooks
    /\ hk.calls[2].persistence.persistenceFunction = "returns"
    /\ hk.calls[2].hookFn = "throws" /\ hk.calls[2].stored = "no"
    /\ hk.calls[2].pc = "done" /\ txs[2].caller = "rejected"

\* ------------------------------------------------- claims: the replay

\* C24 as stated: for every list of logs and every combination of the options
\* and of handlers that return, throw or are missing, the counts returned
\* have applied + skipped equal to the number of logs.
C24_AppliedPlusSkipped ==
    rp.pc = "done" => rp.applied + rp.skipped = Len(rp.logs)

\* C24: for every list of logs and every combination of the options and of
\* handlers that return, throw or are missing, the call returns with
\* applied + skipped + the number of errors equal to the number of logs: a
\* log whose handler throws, or has no handler while allowUnknownHooks is
\* false, is counted in errors only.
C24_AppliedSkippedErrors ==
    /\ rp.pc = "done" => rp.applied + rp.skipped + Len(rp.errors) = Len(rp.logs)
    /\ rp.pc = "running" =>
          rp.applied + rp.skipped + Len(rp.errors) = rp.pos - 1
    /\ rp.applied = Len(rp.state)
    /\ rp.skipped = Len(rp.skips)

\* a replay has returned with one log applied, one skipped and one in errors
C24_Witness ==
    /\ rp.pc = "done" /\ Len(rp.logs) = 3
    /\ rp.applied = 1 /\ rp.skipped = 1 /\ Len(rp.errors) = 1

\* the logs handled so far, as positions of orderedLogs
Handled(r) == 1..(IF r.pc = "done" THEN Len(r.orderedLogs) ELSE r.pos - 1)

\* log j was skipped for this reason
SkippedAs(r, j, reason) == \E n \in 1..Len(r.skips) : r.skips[n] = <<j, reason>>

\* the handler of log j was invoked
Invoked(r, j) == \E n \in 1..Len(r.invoked) : r.invoked[n] = j

\* C25 as stated: with dedupe, among the logs that share a transactionId (an
\* empty one is none) only
\* the first one in replay order has its handler invoked, and every later one
\* is skipped with reason 'duplicate' and counted in skipped.
C25_OnlyFirstInvoked ==
    (rp.options.dedupe /\ rp.pc # "idle") =>
        /\ \A i, j \in Handled(rp) :
              ( /\ i < j
                /\ rp.orderedLogs[i].transactionId # <<>>
                /\ rp.orderedLogs[i].transactionId = rp.orderedLogs[j].transactionId ) =>
                  ~Invoked(rp, j) /\ SkippedAs(rp, j, "duplicate")
        /\ rp.skipped >= Cardinality({j \in Handled(rp) : SkippedAs(rp, j, "duplicate")})

\* log i was applied: its handler was invoked and returned
Applied(r, i) == Invoked(r, i) /\ \A n \in 1..Len(r.errors) : r.errors[n] # i

\* C25: with dedupe, once a log with a non-empty transactionId has been
\* applied (its handler was invoked and returned), every later log in replay
\* order with that id does not have its handler invoked and is counted in
\* skipped, with reason 'duplicate' when the activityFilter lets it through
\* and 'filtered' when it does not; so at most one log of an id is applied.
\* A log that was filtered, had no handler or whose handler threw leaves its
\* id free, and logs without a transactionId are never duplicates.
C25_SkipsAfterApplied ==
    (rp.options.dedupe /\ rp.pc # "idle") =>
        /\ \A i, j \in Handled(rp) :
              ( /\ i < j /\ Applied(rp, i)
                /\ rp.orderedLogs[i].transactionId # <<>>
                /\ rp.orderedLogs[i].transactionId = rp.orderedLogs[j].transactionId ) =>
                  /\ ~Invoked(rp, j)
                  /\ SkippedAs(rp, j, IF activityFilter(rp, rp.orderedLogs[j])
                                      THEN "duplicate" ELSE "filtered")
        /\ \A j \in Handled(rp) :
              SkippedAs(rp, j, "duplicate") =>
                  \E i \in Handled(rp) :
                      /\ i < j /\ Applied(rp, i)
                      /\ rp.orderedLogs[i].transactionId = rp.orderedLogs[j].transactionId
        /\ rp.skipped = Len(rp.skips)

\* of three logs with one id, the handler of the first has thrown, the second
\* has been applied and the third has been skipped as a duplicate
C25_Witness ==
    /\ rp.pc = "done" /\ rp.options.dedupe /\ Len(rp.orderedLogs) = 3
    /\ \A i \in 1..3 : rp.orderedLogs[i].transactionId = <<"stable-buffer", 1, 1>>
    /\ rp.errors = <<1>> /\ rp.invoked = <<1, 2>>
    /\ rp.skips = <<<<3, "duplicate">>>>
    /\ rp.applied = 1 /\ rp.skipped = 1

\* C23: the replay, with sort, of the logs a buffer recorded, with handlers
\* that repeat the write of each transaction, on a fresh buffer with the same
\* initial state applies the logs in the order in which the transactions
\* were executed and ends in the final state of the recorded buffer.
C23_ReplayReproducesState ==
    (rp.pc = "done" /\ rp.options.sort) =>
        /\ \A i \in 1..Len(rp.orderedLogs) : rp.orderedLogs[i].transactionId[3] = i
        /\ rp.state = [i \in 1..Len(rp.logs) |-> i]

\* ------------------------------------- claims: the entry of stableRequest

\* the pre-execution hook of the call throws and the call is not told to go on
HookStops(r) ==
    /\ r.options.preExecution.preExecutionHook = "throws"
    /\ ~r.options.preExecution.continueOnPreExecutionHookFailure

\* the call has ended at its pre-execution hook with nothing else done
C31_EndedAtHook ==
    (rq.pc # "idle" /\ HookStops(rq)) =>
        /\ rq.pc = "done" /\ rq.endedBy = "preExecution"
        /\ rq.totalAttemptsMade = 0 /\ rq.transportCalls = 0
        /\ rq.log = <<>> /\ rq.analyzed = <<>> /\ rq.errorLogs = <<>>
        /\ IF rq.options.throwOnFailedErrorAnalysis
           THEN rq.result.kind = "threw"
           ELSE /\ rq.result.kind = "returned"
                /\ ~rq.result.success
                /\ rq.result.has = {"success", "error", "metrics"}
                /\ rq.result.metrics.totalAttempts = 0
                /\ rq.result.metrics.successfulAttempts = 0
                /\ rq.result.metrics.failedAttempts = 0

\* the step is the entry of a call
Enters == rq'.calls = rq.calls + 1

\* the options with a pre-execution hook that returns nothing
WithQuietHook(options) ==
    [options EXCEPT !.preExecution.preExecutionHook = "returns"]

\* C31: when preExecutionHook throws without
\* continueOnPreExecutionHookFailure, the call ends before any breaker check,
\* cache lookup, transport call or other hook: it returns success=false with
\* zero attempts in its metrics, or rethrows under throwOnFailedErrorAnalysis,
\* and leaves the breaker and the cache as they were; with
\* continueOnPreExecutionHookFailure the call enters its loop in the state in
\* which it enters it when the hook returns nothing.
C31_PreExecutionFailure ==
    /\ []C31_EndedAtHook
    /\ [][ (Enters /\ HookStops(rq')) =>
              /\ cb' = cb /\ cm' = cm /\ recency' = recency
              /\ cbLast' = cbLast /\ cmLast' = cmLast /\ probe' = probe ]_vars
    /\ [][ ( /\ Enters
             /\ rq'.options.preExecution.preExecutionHook = "throws"
             /\ rq'.options.preExecution.continueOnPreExecutionHookFailure ) =>
              /\ rq'.endedBy # "preExecution"
              /\ rq' = [ Entered(newCall(rq, WithQuietHook(rq'.options), now))
                           EXCEPT !.options = rq'.options ] ]_vars

\* a second call whose hook threw has returned its failure, with the shared
\* breaker attached and the cache enabled
C31_Witness ==
    /\ rq.pc = "done" /\ rq.calls = 2 /\ HookStops(rq)
    /\ ~rq.options.throwOnFailedErrorAnalysis
    /\ rq.options.circuitBreaker.kind = "instance" /\ rq.options.cache.enabled
    /\ rq.result.kind = "returned" /\ rq.result.error = "Pre-execution hook failed"

\* ------------------------------------------------- claims: the sleeps

\* the delay the strategy computes for attempt i
Base(i) ==
    IF dl.retryStrategy = "LINEAR" THEN i * dl.wait
    ELSE IF dl.retryStrategy = "EXPONENTIAL" THEN dl.wait * 2 ^ (i - 1)
    ELSE dl.wait

\* C32: without jitter the sleep after attempt i is min(base, maxAllowedWait)
\* with base = wait for FIXED, i x wait for LINEAR and wait x 2^(i-1) for
\* EXPONENTIAL; so no sleep exceeds maxAllowedWait and the sleeps of a call
\* never decrease.
C32_SleepIsCappedBase ==
    /\ \A i \in 1..Len(dl.sleeps) :
          /\ dl.sleeps[i] = (IF Base(i) < dl.maxAllowedWait THEN Base(i)
                             ELSE dl.maxAllowedWait)
          /\ dl.sleeps[i] <= dl.maxAllowedWait
    /\ \A i, j \in 1..Len(dl.sleeps) : i < j => dl.sleeps[i] <= dl.sleeps[j]

\* an EXPONENTIAL call has slept 1000, 2000 and 4000 ms and then the cap twice
C32_Witness ==
    /\ dl.retryStrategy = "EXPONENTIAL" /\ dl.wait = 1000 /\ dl.maxAllowedWait = 4000
    /\ dl.sleeps = <<1000, 2000, 4000, 4000, 4000>>

\* --------------------------------------- claims: the breaker under concurrency

\* C33: while the breaker is HALF_OPEN, no more than halfOpenMaxRequests
\* callers have been admitted since it became HALF_OPEN, also when several
\* execute(fn) calls are in flight at the same time.
C33_HalfOpenAdmissions ==
    cb.state = HALF_OPEN => fl.admitted <= cb.config.halfOpenMaxRequests

\* ------------------------------------- claims: the ids of the operations

\* C34: the operations issued against one buffer carry pairwise different
\* operationIds, also when they are issued by different coordinators that
\* share the buffer; so no operation is skipped, each being issued once.
C34_OperationIdsDiffer ==
    /\ \A i, j \in 1..Len(co.operations) :
          i # j => co.operations[i].operationId # co.operations[j].operationId
    /\ \A i \in 1..Len(co.results) : co.results[i] # "skipped"

\* --------------------------------- claims: the half-open probe of the engine

\* C35: when calls share a breaker that tracks the attempts and the breaker
\* has become HALF_OPEN, the attempts the calls record advance the probe:
\* once halfOpenMaxRequests attempts have been recorded since then, the
\* breaker is CLOSED or OPEN again.
C35_AttemptsAdvanceProbe ==
    ( /\ cb.config.trackIndividualAttempts
      /\ rq.options.circuitBreaker.kind = "instance"
      /\ cb.state = HALF_OPEN ) =>
        hp < cb.config.halfOpenMaxRequests

\* ---------------------------------------- claims: the access order of the cache

\* C36: after any sequence of get, set, delete, prune and clear, the access
\* order holds exactly the keys of the cache map, each of them once.
C36_AccessOrderIsKeys ==
    /\ {cm.accessOrder[i] : i \in 1..Len(cm.accessOrder)} = DOMAIN cm.cache
    /\ \A i, j \in 1..Len(cm.accessOrder) :
          i # j => cm.accessOrder[i] # cm.accessOrder[j]

\* ---------------------------------------------- claims: the metrics of a result

\* C37: in every result returned by stableRequest the successful and the
\* failed attempts of the metrics add up to the total attempts, and a result
\* with success=true reports at least one successful attempt.
C37_MetricsAddUp ==
    (rq.pc = "done" /\ rq.result.kind = "returned") =>
        /\ rq.result.metrics.successfulAttempts + rq.result.metrics.failedAttempts
              = rq.result.metrics.totalAttempts
        /\ rq.result.success => rq.result.metrics.successfulAttempts >= 1

\* ------------------------------------- claims: the transitions of the breaker

\* the changes of state a canExecute or record call may make
BreakerTransitions ==
    { <<CLOSED, OPEN>>, <<OPEN, HALF_OPEN>>, <<HALF_OPEN, CLOSED>>, <<HALF_OPEN, OPEN>> }

\* C38: the state of the breaker changes only from CLOSED to OPEN, from OPEN
\* to HALF_OPEN and from HALF_OPEN to CLOSED or to OPEN, except that reset()
\* makes it CLOSED; each of these changes made by a canExecute or record call
\* adds exactly one to stateTransitions, and a call that leaves the state as
\* it is leaves stateTransitions as it is.
C38_TransitionsOfTheBreaker ==
    [][ /\ (cb'.state # cb.state /\ cbLast'.op # "reset") =>
              /\ <<cb.state, cb'.state>> \in BreakerTransitions
              /\ cb'.stateTransitions = cb.stateTransitions + 1
        /\ (cb'.state # cb.state /\ cbLast'.op = "reset") => cb'.state = CLOSED
        /\ cb'.state = cb.state => cb'.stateTransitions = cb.stateTransitions ]_vars

\* the breaker has opened, become HALF_OPEN and closed again
C38_Witness ==
    /\ cb.state = CLOSED /\ cb.stateTransitions = 3
    /\ cb.openCount = 1 /\ cb.halfOpenCount = 1 /\ cb.successfulRecoveries = 1

\* --------------------------------- claims: the timeout of a queued transaction

\* the call of transaction i was rejected by its timer before its body started
RejectedInQueue(i) ==
    /\ TimedOut(txs[i])
    /\ txs[i].status = "queued" \/ txs[i].startAt >= txs[i].queuedAt + buf.transactionTimeoutMs

\* the budget runs from the call of run(): no call is pending after it, whether
\* its body has started or not, and a body that starts after its call was
\* rejected runs as any other body
C39_BudgetRunsInQueue ==
    \A i \in 1..Len(txs) :
        /\ (buf.transactionTimeoutMs > 0 /\ txs[i].caller = "pending") =>
              now <= txs[i].queuedAt + buf.transactionTimeoutMs
        /\ RejectedInQueue(i) =>
              /\ txs[i].status = "queued" => Writes(i) = 0
              /\ txs[i].status = "running" => Writes(i) = 0
              /\ settled(txs[i]) =>
                    /\ Writes(i) = 1
                    /\ txs[i].status = (IF txs[i].fn = "returns" THEN "resolved"
                                                                 ELSE "rejected")
              /\ txs[i].after # 0 /\ txs[i].status # "queued" => settled(txs[txs[i].after])

\* C39: the budget of a run() call is counted from the call, not from the
\* start of the body: a transaction kept in the queue for longer than the
\* budget is rejected with the timeout error before its body has started, and
\* its body is executed all the same afterwards.
C39_TimeoutCountsFromRun ==
    /\ []C39_BudgetRunsInQueue
    /\ []<>(\A i \in 1..Len(txs) : RejectedInQueue(i) => settled(txs[i]) /\ Writes(i) = 1)

\* the second call was rejected by its timer while it waited behind the first
\* body, and its body has run after that
C39_Witness ==
    /\ Len(txs) >= 2 /\ buf.transactionTimeoutMs = BufferTimeoutMs
    /\ TimedOut(txs[2])
    /\ txs[2].startAt >= txs[2].queuedAt + buf.transactionTimeoutMs
    /\ txs[2].startAt >= txs[1].finishedAt
    /\ settled(txs[2]) /\ Writes(2) = 1

\* ------------------------------------------- claims: a body that calls run()

\* the body of transaction p[1] awaits transaction p[2] and neither has moved:
\* the body runs, the transaction it awaits is queued, both calls are pending
Stuck(p) ==
    /\ txs[p[1]].status = "running" /\ txs[p[1]].caller \in {"pending", timeoutError(buf)}
    /\ txs[p[2]].status = "queued" /\ txs[p[2]].caller \in {"pending", timeoutError(buf)}

\* C40: a body that calls run() on its own buffer and awaits the result cannot
\* complete: the transaction it awaits is queued behind it and does not start
\* while the body runs, so that without a transaction timeout neither of the
\* two ever settles and no transaction enqueued after the body's own starts.
C40_NestedRunNeverSettles ==
    \A p \in ns :
        /\ txs[p[1]].status = "running" => txs[p[2]].status = "queued"
        /\ txs[p[2]].startAt # 0 => settled(txs[p[1]]) /\ txs[p[2]].startAt >= txs[p[1]].finishedAt
        /\ settled(txs[p[1]]) => txs[p[1]].status = "rejected" /\ TimedOut(txs[p[2]])
        /\ buf.transactionTimeoutMs = 0 =>
              /\ Stuck(p)
              /\ txs[p[1]].caller = "pending" /\ txs[p[2]].caller = "pending"
              /\ Writes(p[1]) = 0 /\ Writes(p[2]) = 0
              /\ \A j \in 1..Len(txs) : j > p[1] => txs[j].status = "queued"

\* without a timeout a body awaits its own run() call, a transaction was
\* enqueued after it, and the clock has since advanced
C40_Witness ==
    /\ buf.transactionTimeoutMs = 0
    /\ \E p \in ns :
          /\ Len(txs) > p[2]
          /\ txs[Len(txs)].status = "queued"
          /\ now >= txs[Len(txs)].queuedAt + 2 * TickMs

====
